---- MODULE Spec2Model ----
(***************************************************************************)
(* A model of the component contract of openmdao/core/component.py:        *)
(* the variable registry (Component), the implicit and explicit evaluation *)
(* disciplines (ImplicitComponent, ExplicitComponent) and the vectors and  *)
(* Jacobian store they act on.                                             *)
(***************************************************************************)
EXTENDS Integers, Sequences, FiniteSets, TLC

VARIABLES
    \* Component: the variable registry
    allprocs_names,   \* self._variable_allprocs_names  : typ -> list of names
    myproc_names,     \* self._variable_myproc_names    : typ -> list of names
    myproc_metadata,  \* self._variable_myproc_metadata : typ -> list of dicts
    \* the vectors bound to the component
    inputs,           \* self._inputs    : input name -> flat view
    outputs,          \* self._outputs   : output name -> flat view
    residuals,        \* self._residuals : output name -> flat view
    d_outputs,        \* self._vectors['output']   : vec_name -> vector
    d_residuals,      \* self._vectors['residual'] : vec_name -> vector
    \* the Jacobian store
    jacobian,         \* self._jacobian : key (of, wrt) -> block, or Absent
    jac_system,       \* self._jacobian._system
    \* what the component class and its owner supply
    computeKind,      \* which compute() the component class defines
    nl_solver,        \* self._nl_solver : TRUE when a sub-solver is attached
    ln_solver,        \* self._ln_solver : TRUE when a sub-solver is attached
    \* the last call, as its caller observes it
    op,               \* the method that ran last ("init" before any)
    prevOp,           \* the method that ran before that one
    args,             \* the arguments of the last call
    calls,            \* the callbacks the last call invoked, in order
    ret,              \* what the last call returned, or the error it raised
    pre,              \* the state the last call started from (the parts it may write)
    \* IndepVarComp
    indep,            \* self._indep : (name, val), "None" before __init__ sets it
    metadata,         \* self.metadata._dict : the keyword arguments of __init__
    \* graph_utils: the graph and the locals of a running all_connected_edges
    graph,            \* node -> the list of its successors, in insertion order
    visited,          \* the set visited
    stack,            \* the list stack
    yielded           \* the edges yielded so far, in order

regVars == <<allprocs_names, myproc_names, myproc_metadata>>
vecVars == <<inputs, outputs, residuals>>
dVars   == <<d_outputs, d_residuals>>
jacVars == <<jacobian, jac_system>>
cfgVars == <<computeKind, nl_solver, ln_solver>>
obsVars == <<op, prevOp, args, calls, ret, pre>>
ivcVars == <<indep, metadata>>
graphVars == <<graph, visited, stack, yielded>>

vars == <<allprocs_names, myproc_names, myproc_metadata, inputs, outputs,
          residuals, d_outputs, d_residuals, jacobian, jac_system,
          computeKind, nl_solver, ln_solver, op, prevOp, args, calls, ret, pre,
          indep, metadata, graph, visited, stack, yielded>>

\* A component that is no IndepVarComp, and no graph traversal running.
NoIndepVarComp == indep = "None" /\ metadata = <<>>

NoGraph == graph = <<>> /\ visited = {} /\ stack = <<>> /\ yielded = <<>>

----------------------------------------------------------------------------
(* Bounds of the model. *)

\* Initial vector entries are drawn from -MaxVal..MaxVal.
MaxVal == 1

\* A component makes at most MaxDecl add_input / add_output calls.
MaxDecl == 2

\* An IndepVarComp is built from an iterable of at most MaxEntries entries.
MaxEntries == 2

\* A graph has at most MaxEdges edges and isolated nodes.
MaxEdges == 4

----------------------------------------------------------------------------
(* Floating-point arithmetic.  The vectors are numpy float arrays; every   *)
(* elementwise operation rounds its exact result to the nearest            *)
(* representable number, ties to the even significand.  The model keeps    *)
(* the rounding and shortens the significand to two bits: the              *)
(* representable numbers are  +-m * 2^e  with m in 0..3, that is           *)
(* 0, 1, 2, 3, 4, 6, 8, 12, 16, ...                                        *)

RECURSIVE Pow2(_)
Pow2(e) == IF e = 0 THEN 1 ELSE 2 * Pow2(e - 1)

\* The exponent e of the spacing 2^e of the representable numbers around a.
RECURSIVE Expo(_)
Expo(a) == IF a < 4 THEN 0 ELSE 1 + Expo(a \div 2)

FlAbs(a) ==
    LET ulp == Pow2(Expo(a))
        lo  == (a \div ulp) * ulp
        rem == a - lo
    IN  IF 2 * rem < ulp THEN lo
        ELSE IF 2 * rem > ulp THEN lo + ulp
        ELSE IF (a \div ulp) % 2 = 0 THEN lo ELSE lo + ulp

\* Round the exact value x to the nearest representable number.
Fl(x) == IF x < 0 THEN 0 - FlAbs(0 - x) ELSE FlAbs(x)

Representable(x) == Fl(x) = x

Vals == {v \in (0 - MaxVal)..MaxVal : Representable(v)}

----------------------------------------------------------------------------
(* Python values: a float, a numpy.ndarray (shape and flat content) or a   *)
(* list.  Only an ndarray has .shape and .size.                            *)

PyFloat(v) == [kind |-> "float", shape |-> <<>>, flat |-> <<v>>]

NdArray(shape, flat) == [kind |-> "ndarray", shape |-> shape, flat |-> flat]

PyList(flat) == [kind |-> "list", shape |-> <<Len(flat)>>, flat |-> flat]

\* numpy.arange(0, n, dtype=int)
arange(n) == NdArray(<<n>>, [i \in 1..n |-> i - 1])

\* numpy.array(obj): an array holding the elements of a list or an array
numpy_array(obj) == NdArray(<<Len(obj.flat)>>, obj.flat)

isinstance_ndarray(val) == val.kind = "ndarray"

----------------------------------------------------------------------------
(* Component: the variable registry *)

Typs == {"input", "output"}

DEFAULTS ==
    [indices |-> PyList(<<0>>), shape |-> <<1>>, units |-> "",
     value |-> PyFloat(1), scale |-> 1, lower |-> "None", upper |-> "None",
     var_set |-> 0]

\* dict.update: the keys of kwargs override or extend those of d.
dict_update(d, kwargs) ==
    [k \in DOMAIN d \cup DOMAIN kwargs |->
        IF k \in DOMAIN kwargs THEN kwargs[k] ELSE d[k]]

\* _add_variable's metadata with the identity indices for every array input,
\* whatever indices the caller gave.
C12_Metadata_AlwaysIdentity(typ, val, kwargs) ==
    LET m0 == dict_update(DEFAULTS, kwargs)
        m1 == [m0 EXCEPT !["value"] = val]
        m2 == IF isinstance_ndarray(val)
              THEN LET m == [m1 EXCEPT !["shape"] = val.shape]
                   IN  IF typ = "input"
                       THEN [m EXCEPT !["indices"] = arange(Len(val.flat))]
                       ELSE m
              ELSE m1
    IN  IF typ = "input"
        THEN [m2 EXCEPT !["indices"] = numpy_array(m2["indices"])]
        ELSE m2

\* The metadata dictionary _add_variable builds.
Metadata(typ, val, kwargs) ==
    LET m0 == dict_update(DEFAULTS, kwargs)
        m1 == [m0 EXCEPT !["value"] = val]
        m2 == IF isinstance_ndarray(val)
              THEN LET m == [m1 EXCEPT !["shape"] = val.shape]
                   IN  IF typ = "input" /\ "indices" \notin DOMAIN kwargs
                       THEN [m EXCEPT !["indices"] = arange(Len(val.flat))]
                       ELSE m
              ELSE m1
    IN  IF typ = "input"
        THEN [m2 EXCEPT !["indices"] = numpy_array(m2["indices"])]
        ELSE m2

\* The registry as one value: the three parallel lists, per typ.
EmptyRegistry ==
    [all  |-> [t \in Typs |-> <<>>],
     my   |-> [t \in Typs |-> <<>>],
     meta |-> [t \in Typs |-> <<>>]]

\* _add_variable putting the new name in front of the name lists.
C11_AddVariable_Prepend(reg, name, typ, val, kwargs) ==
    [all  |-> [reg.all  EXCEPT ![typ] = <<name>> \o @],
     my   |-> [reg.my   EXCEPT ![typ] = <<name>> \o @],
     meta |-> [reg.meta EXCEPT ![typ] = Append(@, Metadata(typ, val, kwargs))]]

\* Component._add_variable on a registry value.
AddVariable(reg, name, typ, val, kwargs) ==
    [all  |-> [reg.all  EXCEPT ![typ] = Append(@, name)],
     my   |-> [reg.my   EXCEPT ![typ] = Append(@, name)],
     meta |-> [reg.meta EXCEPT ![typ] = Append(@, Metadata(typ, val, kwargs))]]

Registry ==
    [all |-> allprocs_names, my |-> myproc_names, meta |-> myproc_metadata]

SetRegistry(reg) ==
    /\ allprocs_names' = reg.all
    /\ myproc_names' = reg.my
    /\ myproc_metadata' = reg.meta

NumDeclared == Len(myproc_names["input"]) + Len(myproc_names["output"])

IsDeclared(reg, name) ==
    \E t \in Typs : \E i \in 1..Len(reg.my[t]) : reg.my[t][i] = name

\* The names, default values and options the declarations are drawn from.
VarNames == {"x", "y"}

DeclVals ==
    {PyFloat(1), PyFloat(2), NdArray(<<2, 3>>, <<1, 2, 3, 4, 6, 8>>),
     PyList(<<1, 2>>)}

DeclKwargs ==
    {<<>>, [units |-> "m"], [indices |-> PyList(<<1, 0>>)], [shape |-> <<3>>]}

Component_add_variable(name, typ, val, kwargs) ==
    /\ NumDeclared < MaxDecl
    /\ SetRegistry(AddVariable(Registry, name, typ, val, kwargs))
    /\ op' = "add_" \o typ
    /\ prevOp' = op
    /\ args' = [name |-> name, typ |-> typ, val |-> val, kwargs |-> kwargs]
    /\ calls' = <<>>
    /\ ret' = "None"
    /\ pre' = Registry
    /\ UNCHANGED <<vecVars, dVars, jacVars, cfgVars, ivcVars, graphVars>>

add_input(name, val, kwargs) == Component_add_variable(name, "input", val, kwargs)

add_output(name, val, kwargs) == Component_add_variable(name, "output", val, kwargs)

(* The component during its declaration phase: Component.__init__ leaves   *)
(* the three lists empty, then add_input / add_output are called.          *)
InitReg ==
    /\ allprocs_names = EmptyRegistry.all
    /\ myproc_names = EmptyRegistry.my
    /\ myproc_metadata = EmptyRegistry.meta
    /\ inputs = <<>>
    /\ outputs = <<>>
    /\ residuals = <<>>
    /\ d_outputs = <<>>
    /\ d_residuals = <<>>
    /\ jacobian = <<>>
    /\ jac_system = "None"
    /\ computeKind = "noop"
    /\ nl_solver = FALSE
    /\ ln_solver = FALSE
    /\ NoIndepVarComp
    /\ NoGraph
    /\ op = "init"
    /\ prevOp = "init"
    /\ args = <<>>
    /\ calls = <<>>
    /\ ret = "None"
    /\ pre = EmptyRegistry

NextReg ==
    \/ \E name \in VarNames, val \in DeclVals, kwargs \in DeclKwargs :
          add_input(name, val, kwargs)
    \/ \E name \in VarNames, val \in DeclVals, kwargs \in DeclKwargs :
          add_output(name, val, kwargs)

SpecReg == InitReg /\ [][NextReg]_vars

----------------------------------------------------------------------------
(* Vectors: a view per variable name, each a tuple of floats.  The flat    *)
(* size of a view comes from the sizing plan: 2 for y, 1 otherwise.        *)

Size(n) == IF n = "y" THEN 2 ELSE 1

\* All vectors over the names N with entries in V.
VecSpace(N, V) ==
    LET S1 == [{1} -> V]
        S2 == [{1, 2} -> V]
    IN  {v \in [N -> S1 \cup S2] : \A n \in N : Len(v[n]) = Size(n)}

(* Vector operations, elementwise over every view. *)
Vec_set_vec(dst, src) == [n \in DOMAIN dst |-> src[n]]

Vec_set_const(v, c) == [n \in DOMAIN v |-> [k \in DOMAIN v[n] |-> c]]

Vec_isub(a, b) ==
    [n \in DOMAIN a |-> [k \in DOMAIN a[n] |-> Fl(a[n][k] - b[n][k])]]

Vec_iadd(a, b) ==
    [n \in DOMAIN a |-> [k \in DOMAIN a[n] |-> Fl(a[n][k] + b[n][k])]]

Vec_imul(a, c) ==
    [n \in DOMAIN a |-> [k \in DOMAIN a[n] |-> Fl(a[n][k] * c)]]

ZeroVec(v) == \A n \in DOMAIN v : \A k \in DOMAIN v[n] : v[n][k] = 0

----------------------------------------------------------------------------
(* The explicit component of the nonlinear contract: it declares one input *)
(* x and two outputs y (size 2) and z (size 1).                            *)

InNames  == {"x"}
OutNames == {"y", "z"}

RegXYZ ==
    LET r1 == AddVariable(EmptyRegistry, "x", "input", PyFloat(1), <<>>)
        r2 == AddVariable(r1, "y", "output", NdArray(<<2>>, <<1, 1>>), <<>>)
    IN  AddVariable(r2, "z", "output", PyFloat(1), <<>>)

(* compute(inputs, outputs): the user's function f.  "noop" is the default *)
(* body of ExplicitComponent.compute (pass); the other kinds overwrite     *)
(* every output with a function of the inputs only.                        *)
ComputeKinds == {"noop", "affine", "double", "const"}

F(kind, inp) ==
    LET x == inp["x"][1]
    IN  CASE kind = "affine" -> [n \in OutNames |->
                 IF n = "y" THEN <<Fl(x + 5), Fl(x - 5)>> ELSE <<Fl(3 * x)>>]
          [] kind = "double" -> [n \in OutNames |->
                 IF n = "y" THEN <<Fl(2 * x), x>> ELSE <<Fl(0 - x)>>]
          [] OTHER -> [n \in OutNames |->
                 IF n = "y" THEN <<2, 0>> ELSE <<1>>]

\* A compute that overwrites the outputs also when its body is the default.
C30_compute_AlwaysWrites(kind, inp, out) == F(kind, inp)

compute(kind, inp, out) == IF kind = "noop" THEN out ELSE F(kind, inp)

\* The part of the state the nonlinear methods read and write.
NLState == [inputs |-> inputs, outputs |-> outputs, residuals |-> residuals]

\* A call starts from the state st with an empty log of callbacks.
Entered(st) == [k \in DOMAIN st \cup {"calls"} |->
                   IF k = "calls" THEN <<>> ELSE st[k]]

(* ExplicitComponent._apply_nonlinear: the vectors after its four          *)
(* statements.                                                             *)
C2_ApplyNonlinearSteps_Swapped(st0) ==
    LET st1 == [st0 EXCEPT !.residuals = Vec_set_vec(@, st0.outputs),
                           !.calls = Append(@, "residuals.set_vec")]
        st2 == [st1 EXCEPT !.outputs = compute(computeKind, st1.inputs, @),
                           !.calls = Append(@, "compute")]
        st3 == [st2 EXCEPT !.residuals = Vec_isub(st2.outputs, @),
                           !.calls = Append(@, "residuals.isub")]
    IN  [st3 EXCEPT !.outputs = Vec_isub(@, st3.residuals),
                    !.calls = Append(@, "outputs.iadd")]

ApplyNonlinearSteps(st0) ==
    LET \* residuals.set_vec(outputs)
        st1 == [st0 EXCEPT !.residuals = Vec_set_vec(@, st0.outputs),
                           !.calls = Append(@, "residuals.set_vec")]
        \* self.compute(inputs, outputs)
        st2 == [st1 EXCEPT !.outputs = compute(computeKind, st1.inputs, @),
                           !.calls = Append(@, "compute")]
        \* residuals -= outputs
        st3 == [st2 EXCEPT !.residuals = Vec_isub(@, st2.outputs),
                           !.calls = Append(@, "residuals.isub")]
        \* outputs += residuals
    IN  [st3 EXCEPT !.outputs = Vec_iadd(@, st3.residuals),
                    !.calls = Append(@, "outputs.iadd")]

(* ExplicitComponent._solve_nonlinear *)
C1_SolveNonlinearSteps_NoCompute(st0) ==
    [st0 EXCEPT !.residuals = Vec_set_const(@, 0),
                !.calls = Append(@, "residuals.set_const")]

C3_SolveNonlinearSteps_NoZero(st0) ==
    [st0 EXCEPT !.outputs = compute(computeKind, st0.inputs, @),
                !.calls = Append(@, "compute")]

SolveNonlinearSteps(st0) ==
    LET \* residuals.set_const(0.0)
        st1 == [st0 EXCEPT !.residuals = Vec_set_const(@, 0),
                           !.calls = Append(@, "residuals.set_const")]
        \* self.compute(inputs, outputs)
    IN  [st1 EXCEPT !.outputs = compute(computeKind, st1.inputs, @),
                    !.calls = Append(@, "compute")]

SetNLState(st) ==
    /\ inputs' = st.inputs
    /\ outputs' = st.outputs
    /\ residuals' = st.residuals
    /\ calls' = st.calls

Explicit_apply_nonlinear ==
    /\ SetNLState(ApplyNonlinearSteps(Entered(NLState)))
    /\ op' = "_apply_nonlinear"
    /\ prevOp' = op
    /\ args' = <<>>
    /\ ret' = "None"
    /\ pre' = NLState
    /\ UNCHANGED <<regVars, dVars, jacVars, cfgVars, ivcVars, graphVars>>

Explicit_solve_nonlinear ==
    /\ SetNLState(SolveNonlinearSteps(Entered(NLState)))
    /\ op' = "_solve_nonlinear"
    /\ prevOp' = op
    /\ args' = <<>>
    /\ ret' = "None"
    /\ pre' = NLState
    /\ UNCHANGED <<regVars, dVars, jacVars, cfgVars, ivcVars, graphVars>>

InitNL ==
    /\ allprocs_names = RegXYZ.all
    /\ myproc_names = RegXYZ.my
    /\ myproc_metadata = RegXYZ.meta
    /\ inputs \in VecSpace(InNames, Vals)
    /\ outputs \in VecSpace(OutNames, Vals)
    /\ residuals \in VecSpace(OutNames, Vals)
    /\ d_outputs = <<>>
    /\ d_residuals = <<>>
    /\ jacobian = <<>>
    /\ jac_system = "None"
    /\ computeKind \in ComputeKinds
    /\ nl_solver = FALSE
    /\ ln_solver = FALSE
    /\ NoIndepVarComp
    /\ NoGraph
    /\ op = "init"
    /\ prevOp = "init"
    /\ args = <<>>
    /\ calls = <<>>
    /\ ret = "None"
    /\ pre = NLState

NextNL ==
    \/ Explicit_apply_nonlinear
    \/ Explicit_solve_nonlinear

SpecNL == InitNL /\ [][NextNL]_vars

----------------------------------------------------------------------------
(* The Jacobian store: a dictionary from (of, wrt) name pairs to blocks.   *)
(* A block is a dense array or a sparse (values, rows, columns) triplet.   *)

Dense(v) == [kind |-> "dense", vals |-> <<v>>, rows |-> <<>>, cols |-> <<>>]

\* (numpy.ones(size), numpy.arange(size), numpy.arange(size))
Identity(size) ==
    [kind |-> "coo", vals |-> [i \in 1..size |-> 1],
     rows |-> arange(size).flat, cols |-> arange(size).flat]

Negated(blk) == [blk EXCEPT !.vals = [i \in DOMAIN @ |-> 0 - @[i]]]

\* jacobian[key] = blk
Jac_setitem(jac, key, blk) ==
    [k \in DOMAIN jac \cup {key} |-> IF k = key THEN blk ELSE jac[k]]

\* key in jacobian
Jac_contains(jac, key) == key \in DOMAIN jac

\* jacobian._negate(key)
Jac_negate(jac, key) == [jac EXCEPT ![key] = Negated(@)]

EmptyJac == [k \in {} |-> Dense(0)]

\* The flat views of a vector over the names N, zero-filled.
VecOver(N) == [n \in N |-> [k \in 1..Size(n) |-> 0]]

Range(seq) == {seq[i] : i \in DOMAIN seq}

(* compute_jacobian(inputs, outputs, jacobian): the user writes the blocks *)
(* of W, a dictionary; the default body (pass) writes none.                *)
UserKeys == <<<<"y", "x">>, <<"y", "y">>, <<"y", "z">>>>

UserBlocks == {Dense(1), Dense(2)}

\* The dictionaries that give a block to some of the keys in UserKeys.
UserWrites ==
    LET Choice == [1..Len(UserKeys) -> UserBlocks \cup {Dense(0)}]
    IN  {[k \in {UserKeys[i] : i \in {j \in 1..Len(UserKeys) : c[j] # Dense(0)}}
            |-> c[CHOOSE i \in 1..Len(UserKeys) : UserKeys[i] = k]]
         : c \in Choice}

compute_jacobian(jac, W) ==
    [k \in DOMAIN jac \cup DOMAIN W |-> IF k \in DOMAIN W THEN W[k] ELSE jac[k]]

\* The part of the state _linearize reads and writes.
JacState ==
    [jacobian |-> jacobian, jac_system |-> jac_system, outputs |-> outputs,
     names |-> myproc_names]

Log(st, what) == [st EXCEPT !.calls = Append(@, what)]

\* for op_name in names['output']: jacobian[op_name, op_name] = identity
RECURSIVE SetDiagonals(_, _)
SetDiagonals(st, i) ==
    IF i > Len(st.names["output"]) THEN st
    ELSE LET op_name == st.names["output"][i]
             size    == Len(st.outputs[op_name])
             st1     == [st EXCEPT !.jacobian =
                            Jac_setitem(@, <<op_name, op_name>>, Identity(size))]
         IN  SetDiagonals(Log(st1, "jacobian.setitem"), i + 1)

\* for ip_name in names['input']: negate (op_name, ip_name) when present
RECURSIVE NegateRow(_, _, _)
NegateRow(st, op_name, j) ==
    IF j > Len(st.names["input"]) THEN st
    ELSE LET key == <<op_name, st.names["input"][j]>>
         IN  IF Jac_contains(st.jacobian, key)
             THEN NegateRow(Log([st EXCEPT !.jacobian = Jac_negate(@, key)],
                                "jacobian._negate"), op_name, j + 1)
             ELSE NegateRow(st, op_name, j + 1)

\* for op_name in names['output']: the loop over the inputs
RECURSIVE NegateInputBlocks(_, _)
NegateInputBlocks(st, i) ==
    IF i > Len(st.names["output"]) THEN st
    ELSE NegateInputBlocks(NegateRow(st, st.names["output"][i], 1), i + 1)

(* ExplicitComponent._linearize *)
LinearizeSteps(st0, W) ==
    LET \* self._jacobian._system = self
        st1 == [st0 EXCEPT !.jac_system = "self"]
        \* self.compute_jacobian(self._inputs, self._outputs, self._jacobian)
        st2 == Log([st1 EXCEPT !.jacobian = compute_jacobian(@, W)],
                   "compute_jacobian")
        st3 == SetDiagonals(st2, 1)
        st4 == NegateInputBlocks(st3, 1)
        \* self._jacobian._update(); self._jacobian._precompute_iter()
    IN  Log(Log(st4, "jacobian._update"), "jacobian._precompute_iter")

Explicit_linearize(W) ==
    LET st == LinearizeSteps(Entered(JacState), W)
    IN  /\ jacobian' = st.jacobian
        /\ jac_system' = st.jac_system
        /\ calls' = st.calls
        /\ op' = "_linearize"
        /\ prevOp' = op
        /\ args' = [W |-> W]
        /\ ret' = "None"
        /\ pre' = JacState
        /\ UNCHANGED <<regVars, vecVars, dVars, cfgVars, ivcVars, graphVars>>

(* The components of the linearization contract, as their declarations     *)
(* leave the registry: x -> (y, z); an input that is named like an output; *)
(* an output declared twice.                                               *)
RegXYYZ ==
    LET r1 == AddVariable(EmptyRegistry, "x", "input", PyFloat(1), <<>>)
        r2 == AddVariable(r1, "y", "input", NdArray(<<2>>, <<1, 1>>), <<>>)
        r3 == AddVariable(r2, "y", "output", NdArray(<<2>>, <<1, 1>>), <<>>)
    IN  AddVariable(r3, "z", "output", PyFloat(1), <<>>)

RegXYY ==
    LET r1 == AddVariable(EmptyRegistry, "x", "input", PyFloat(1), <<>>)
        r2 == AddVariable(r1, "y", "output", NdArray(<<2>>, <<1, 1>>), <<>>)
    IN  AddVariable(r2, "y", "output", NdArray(<<2>>, <<1, 1>>), <<>>)

JacRegistries == {RegXYZ, RegXYYZ, RegXYY}

InitJac ==
    /\ \E reg \in JacRegistries :
          /\ allprocs_names = reg.all
          /\ myproc_names = reg.my
          /\ myproc_metadata = reg.meta
    /\ inputs = VecOver(Range(myproc_names["input"]))
    /\ outputs = VecOver(Range(myproc_names["output"]))
    /\ residuals = VecOver(Range(myproc_names["output"]))
    /\ d_outputs = <<>>
    /\ d_residuals = <<>>
    /\ jacobian = EmptyJac
    /\ jac_system = "None"
    /\ computeKind = "noop"
    /\ nl_solver = FALSE
    /\ ln_solver = FALSE
    /\ NoIndepVarComp
    /\ NoGraph
    /\ op = "init"
    /\ prevOp = "init"
    /\ args = <<>>
    /\ calls = <<>>
    /\ ret = "None"
    /\ pre = JacState

NextJac == \E W \in UserWrites : Explicit_linearize(W)

SpecJac == InitJac /\ [][NextJac]_vars

----------------------------------------------------------------------------
(* The linear solve of an explicit component.  The component declares one  *)
(* input x and one output y; a derivative vector exists per vec_name.      *)

RegXY ==
    LET r1 == AddVariable(EmptyRegistry, "x", "input", PyFloat(1), <<>>)
    IN  AddVariable(r1, "y", "output", NdArray(<<2>>, <<1, 1>>), <<>>)

VecNames == {"linear", "adjoint"}

Modes == {"fwd", "rev", "other"}

\* The lists of at most two vec_names a caller passes.
VecNameLists ==
    {<<>>} \cup {<<a>> : a \in VecNames}
           \cup {<<a, b>> : a \in VecNames, b \in VecNames}

\* The methods of a Vector: set_vec, set_const, the in-place arithmetic and
\* the access to a view by name.
VectorMethods ==
    {"set_vec", "set_const", "__iadd__", "__isub__", "__imul__",
     "__getitem__", "__setitem__"}

\* getattr(vector, method): a missing attribute raises AttributeError.
HasMethod(method) == method \in VectorMethods

\* The part of the state _solve_linear reads and writes.
LinState == [d_outputs |-> d_outputs, d_residuals |-> d_residuals]

Raise(st, err) == [st EXCEPT !.raised = err]

EnteredLin(st) ==
    [k \in DOMAIN st \cup {"calls", "raised"} |->
        IF k = "calls" THEN <<>> ELSE IF k = "raised" THEN "None" ELSE st[k]]

(* ExplicitComponent._solve_linear: the loop over vec_names, from its i-th *)
(* element on.  An error that is raised ends the call.                     *)
RECURSIVE ExplicitSolveLinearLoop(_, _, _, _)
ExplicitSolveLinearLoop(st, vec_names, mode, i) ==
    IF i > Len(vec_names) \/ st.raised # "None" THEN st
    ELSE LET vec_name == vec_names[i]
             \* d_outputs.setvec(d_residuals)
             fwd == IF HasMethod("setvec")
                    THEN Log([st EXCEPT !.d_outputs[vec_name] =
                                 Vec_set_vec(@, st.d_residuals[vec_name])],
                             "d_outputs.setvec")
                    ELSE Raise(st, "AttributeError")
             \* d_residuals.setvec(d_outputs)
             rev == IF HasMethod("setvec")
                    THEN Log([st EXCEPT !.d_residuals[vec_name] =
                                 Vec_set_vec(@, st.d_outputs[vec_name])],
                             "d_residuals.setvec")
                    ELSE Raise(st, "AttributeError")
             st1 == IF mode = "fwd" THEN fwd
                    ELSE IF mode = "rev" THEN rev
                    ELSE st
         IN  ExplicitSolveLinearLoop(st1, vec_names, mode, i + 1)

Explicit_solve_linear(vec_names, mode) ==
    LET st == ExplicitSolveLinearLoop(EnteredLin(LinState), vec_names, mode, 1)
    IN  /\ d_outputs' = st.d_outputs
        /\ d_residuals' = st.d_residuals
        /\ calls' = st.calls
        /\ ret' = st.raised
        /\ op' = "_solve_linear"
        /\ prevOp' = op
        /\ args' = [vec_names |-> vec_names, mode |-> mode]
        /\ pre' = LinState
        /\ UNCHANGED <<regVars, vecVars, jacVars, cfgVars, ivcVars, graphVars>>

\* The seeds the derivative vectors hold at first.
DVals == 0..MaxVal

InitLin ==
    /\ allprocs_names = RegXY.all
    /\ myproc_names = RegXY.my
    /\ myproc_metadata = RegXY.meta
    /\ inputs = VecOver({"x"})
    /\ outputs = VecOver({"y"})
    /\ residuals = VecOver({"y"})
    /\ d_outputs \in [VecNames -> VecSpace({"y"}, DVals)]
    /\ d_residuals \in [VecNames -> VecSpace({"y"}, DVals)]
    /\ jacobian = EmptyJac
    /\ jac_system = "None"
    /\ computeKind = "noop"
    /\ nl_solver = FALSE
    /\ ln_solver = FALSE
    /\ NoIndepVarComp
    /\ NoGraph
    /\ op = "init"
    /\ prevOp = "init"
    /\ args = <<>>
    /\ calls = <<>>
    /\ ret = "None"
    /\ pre = LinState

NextLin ==
    \E vec_names \in VecNameLists, mode \in Modes :
        Explicit_solve_linear(vec_names, mode)

SpecLin == InitLin /\ [][NextLin]_vars

----------------------------------------------------------------------------
(* The solves of an implicit component.  A callback (an attached           *)
(* sub-solver, or the component's own solve_nonlinear / solve_linear)      *)
(* returns a Python value: True, False or, as the default bodies do, None. *)

PyResults == {"True", "False", "None"}

Truthy(v) == v = "True"

\* a and b
PyAnd(a, b) == IF Truthy(a) THEN b ELSE a

Call(st, fn, fnargs, result) ==
    [st EXCEPT !.calls = Append(@, [fn |-> fn, args |-> fnargs,
                                    result |-> result])]

ImpState == [nl_solver |-> nl_solver, ln_solver |-> ln_solver]

EnteredImp(st) ==
    [k \in DOMAIN st \cup {"calls", "returned"} |->
        IF k = "calls" THEN <<>> ELSE IF k = "returned" THEN "None" ELSE st[k]]

(* ImplicitComponent._solve_nonlinear; result is what the callback         *)
(* returns.  The method has no return statement.                           *)
C7_ImplicitSolveNonlinearSteps_Both(st0, result) ==
    LET st1 == IF st0.nl_solver
               THEN Call(st0, "_nl_solver", <<"_inputs", "_outputs">>, result)
               ELSE st0
    IN  Call(st1, "solve_nonlinear", <<"_inputs", "_outputs">>, result)

ImplicitSolveNonlinearSteps(st0, result) ==
    IF st0.nl_solver
    THEN \* self._nl_solver(self._inputs, self._outputs)
         Call(st0, "_nl_solver", <<"_inputs", "_outputs">>, result)
    ELSE \* self.solve_nonlinear(self._inputs, self._outputs)
         Call(st0, "solve_nonlinear", <<"_inputs", "_outputs">>, result)

Implicit_solve_nonlinear(result) ==
    LET st == ImplicitSolveNonlinearSteps(EnteredImp(ImpState), result)
    IN  /\ calls' = st.calls
        /\ ret' = st.returned
        /\ op' = "_solve_nonlinear"
        /\ prevOp' = op
        /\ args' = [vec_names |-> <<>>, mode |-> "None"]
        /\ pre' = ImpState
        /\ UNCHANGED <<regVars, vecVars, dVars, jacVars, cfgVars, ivcVars, graphVars>>

(* ImplicitComponent._solve_linear without a linear sub-solver: the loop   *)
(* over vec_names from its i-th element on; results[i] is what the i-th    *)
(* solve_linear call returns, st.returned holds the local success.         *)
RECURSIVE C9_ImplicitSolveLinearLoop_ShortCircuit(_, _, _, _, _)
C9_ImplicitSolveLinearLoop_ShortCircuit(st, vec_names, mode, results, i) ==
    IF i > Len(vec_names) \/ ~Truthy(st.returned) THEN st
    ELSE LET tmp == results[i]
             st1 == Call(st, "solve_linear",
                         <<<<"output", vec_names[i]>>,
                           <<"residual", vec_names[i]>>, mode>>, tmp)
             st2 == [st1 EXCEPT !.returned = PyAnd(@, tmp)]
         IN  C9_ImplicitSolveLinearLoop_ShortCircuit(st2, vec_names, mode,
                                                     results, i + 1)

RECURSIVE ImplicitSolveLinearLoop(_, _, _, _, _)
ImplicitSolveLinearLoop(st, vec_names, mode, results, i) ==
    IF i > Len(vec_names) THEN st
    ELSE LET \* tmp = self.solve_linear(d_outputs, d_residuals, mode)
             tmp == results[i]
             st1 == Call(st, "solve_linear",
                         <<<<"output", vec_names[i]>>,
                           <<"residual", vec_names[i]>>, mode>>, tmp)
             \* success = success and tmp
             st2 == [st1 EXCEPT !.returned = PyAnd(@, tmp)]
         IN  ImplicitSolveLinearLoop(st2, vec_names, mode, results, i + 1)

(* ImplicitComponent._solve_linear; results is what the sub-solver (its    *)
(* first element) or the solve_linear calls return.                        *)
ImplicitSolveLinearSteps(st0, vec_names, mode, results) ==
    IF st0.ln_solver
    THEN \* return self._ln_solver(vec_names, mode)
         LET st1 == Call(st0, "_ln_solver", <<vec_names, mode>>, results[1])
         IN  [st1 EXCEPT !.returned = results[1]]
    ELSE \* success = True; the loop; return success
         ImplicitSolveLinearLoop([st0 EXCEPT !.returned = "True"],
                                 vec_names, mode, results, 1)

Implicit_solve_linear(vec_names, mode, results) ==
    LET st == ImplicitSolveLinearSteps(EnteredImp(ImpState), vec_names, mode,
                                       results)
    IN  /\ calls' = st.calls
        /\ ret' = st.returned
        /\ op' = "_solve_linear"
        /\ prevOp' = op
        /\ args' = [vec_names |-> vec_names, mode |-> mode]
        /\ pre' = ImpState
        /\ UNCHANGED <<regVars, vecVars, dVars, jacVars, cfgVars, ivcVars, graphVars>>

\* What the callbacks of one call return: one result per callback.
ResultLists == [{1, 2} -> PyResults]

InitImp ==
    /\ allprocs_names = RegXY.all
    /\ myproc_names = RegXY.my
    /\ myproc_metadata = RegXY.meta
    /\ inputs = VecOver({"x"})
    /\ outputs = VecOver({"y"})
    /\ residuals = VecOver({"y"})
    /\ d_outputs = [vn \in VecNames |-> VecOver({"y"})]
    /\ d_residuals = [vn \in VecNames |-> VecOver({"y"})]
    /\ jacobian = EmptyJac
    /\ jac_system = "None"
    /\ computeKind = "noop"
    /\ nl_solver \in BOOLEAN
    /\ ln_solver \in BOOLEAN
    /\ NoIndepVarComp
    /\ NoGraph
    /\ op = "init"
    /\ prevOp = "init"
    /\ args = [vec_names |-> <<>>, mode |-> "None"]
    /\ calls = <<>>
    /\ ret = "None"
    /\ pre = ImpState

NextImp ==
    \/ \E result \in PyResults : Implicit_solve_nonlinear(result)
    \/ \E vec_names \in VecNameLists, mode \in {"fwd", "rev"},
          results \in ResultLists :
          Implicit_solve_linear(vec_names, mode, results)

SpecImp == InitImp /\ [][NextImp]_vars

----------------------------------------------------------------------------
(* Component._setup_vector: the owner hands the component its vectors; the *)
(* component binds them and, when the input vector is the default          *)
(* (unnamed) one, writes the declared default of every input into it.      *)
(* The vector has one view per declared name, allocated by the owner with  *)
(* the size of that name's default value (of the last declaration of the   *)
(* name, when it is declared more than once).                              *)

LastIndexOf(names, n) ==
    CHOOSE i \in 1..Len(names) :
        names[i] = n /\ \A j \in (i + 1)..Len(names) : names[j] # n

AllocInputVector(reg) ==
    LET names == reg.my["input"]
    IN  [n \in {names[i] : i \in 1..Len(names)} |->
            [k \in 1..Len(reg.meta["input"][LastIndexOf(names, n)]["value"].flat)
                |-> 0]]

\* view[:] = value, as numpy assigns: a value of one element is broadcast, a
\* value of the view's size is copied, any other raises ValueError.
CanAssign(view, val) == Len(val.flat) \in {1, Len(view)}

Assigned(view, val) ==
    [k \in DOMAIN view |-> IF Len(val.flat) = 1 THEN val.flat[1] ELSE val.flat[k]]

\* The loop of lines 84-85 from its i-th iteration on.
RECURSIVE SetupVectorLoop(_, _, _)
SetupVectorLoop(st, reg, i) ==
    IF i > Len(reg.meta["input"]) THEN st
    ELSE LET n == reg.my["input"][i]
             v == reg.meta["input"][i]["value"]
         IN  IF CanAssign(st.inputs[n], v)
             THEN SetupVectorLoop(
                      [st EXCEPT !.inputs[n] = Assigned(st.inputs[n], v)],
                      reg, i + 1)
             ELSE [st EXCEPT !.ret = "ValueError"]

SetupVectorSteps(reg, vectors) ==
    LET st0 == [inputs |-> vectors.input, ret |-> "None"]
    IN  IF vectors.name = "None" THEN SetupVectorLoop(st0, reg, 1) ELSE st0

InputVectorNames == {"None", "linear"}

Component_setup_vector(vec_name) ==
    LET vectors == [name |-> vec_name, input |-> AllocInputVector(Registry)]
        st == SetupVectorSteps(Registry, vectors)
    IN  /\ inputs' = st.inputs
        /\ op' = "_setup_vector"
        /\ prevOp' = op
        /\ args' = [vec_name |-> vec_name]
        /\ calls' = <<>>
        /\ ret' = st.ret
        /\ pre' = [inputs |-> vectors.input]
        /\ UNCHANGED <<regVars, outputs, residuals, dVars, jacVars, cfgVars,
                       ivcVars, graphVars>>

NextSetup ==
    \/ NextReg
    \/ \E vec_name \in InputVectorNames : Component_setup_vector(vec_name)

SpecSetup == InitReg /\ [][NextSetup]_vars

----------------------------------------------------------------------------
(* IndepVarComp.  Its first argument is a name or an iterable of entries;  *)
(* the entries are arbitrary Python objects, of which the model keeps the  *)
(* class, the items (of a tuple or a list), the number (of an int) and the *)
(* characters (of a str).                                                  *)

TupleObj(items) == [cls |-> "tuple", items |-> items, num |-> 0, str |-> ""]

ListObj(items) == [cls |-> "list", items |-> items, num |-> 0, str |-> ""]

IntObj(n) == [cls |-> "int", items |-> <<>>, num |-> n, str |-> ""]

StrObj(s) == [cls |-> "str", items |-> <<>>, num |-> 0, str |-> s]

NoneObj == [cls |-> "None", items |-> <<>>, num |-> 0, str |-> ""]

\* bool(obj), as the statement  if obj:  tests it.
PyBool(obj) ==
    CASE obj.cls \in {"tuple", "list"} -> Len(obj.items) > 0
      [] obj.cls = "int" -> obj.num # 0
      [] obj.cls = "str" -> obj.str # ""
      [] OTHER -> FALSE

isinstance_string_types(obj) == obj.cls = "str"

isinstance_tuple(obj) == obj.cls = "tuple"

isinstance_Iterable(obj) == obj.cls \in {"tuple", "list", "str"}

\* What a call returned normally, and the exception a call raised.
NoError == [exc |-> "None", about |-> NoneObj]

Raised(exc, about) == [exc |-> exc, about |-> about]

\* The keyword arguments IndepVarComp.__init__ refuses, in the order tested.
Illegal == <<"promotes", "promotes_inputs", "promotes_outputs">>

\* __init__'s test looking for 'promotes' only.
C16_IllegalKwarg_PromotesOnly(kwargs) ==
    IF "promotes" \in DOMAIN kwargs THEN "promotes" ELSE "None"

\* The first refused keyword among kwargs, "None" when there is none.
IllegalKwarg(kwargs) ==
    LET found == {i \in 1..Len(Illegal) : Illegal[i] \in DOMAIN kwargs}
    IN  IF found = {} THEN "None"
        ELSE Illegal[CHOOSE i \in found : \A j \in found : i <= j]

IndepVarComp_init(name, val, kwargs) ==
    /\ op = "init"
    /\ metadata' = kwargs
    /\ indep' = [name |-> name, val |-> val]
    /\ ret' = IF IllegalKwarg(kwargs) = "None" THEN NoError
              ELSE Raised("ValueError", StrObj(IllegalKwarg(kwargs)))
    /\ op' = "__init__"
    /\ prevOp' = op
    /\ args' = [name |-> name, val |-> val, kwargs |-> kwargs]
    /\ calls' = <<>>
    /\ pre' = Registry
    /\ UNCHANGED <<regVars, vecVars, dVars, jacVars, cfgVars, graphVars>>

(* initialize_variables.  The locals n, v, kw of the loop keep their       *)
(* values from one iteration to the next and are unbound before the first  *)
(* assignment.                                                             *)

Locals0 == [bound |-> FALSE, n |-> "", v |-> PyFloat(0), kw |-> <<>>]

\* Lines 370-380: badtup and the locals after looking at the entry tup.
BadTup(tup) ==
    IF isinstance_tuple(tup) /\ Len(tup.items) \in {2, 3} THEN NoneObj ELSE tup

\* The unpacking with kw left as it was for a 2-tuple.
C14_Unpacked_KeepKw(loc, tup) ==
    IF isinstance_tuple(tup) /\ Len(tup.items) = 3
    THEN [bound |-> TRUE, n |-> tup.items[1], v |-> tup.items[2],
          kw |-> tup.items[3]]
    ELSE IF isinstance_tuple(tup) /\ Len(tup.items) = 2
    THEN [bound |-> TRUE, n |-> tup.items[1], v |-> tup.items[2], kw |-> loc.kw]
    ELSE loc

Unpacked(loc, tup) ==
    IF isinstance_tuple(tup) /\ Len(tup.items) = 3
    THEN [bound |-> TRUE, n |-> tup.items[1], v |-> tup.items[2],
          kw |-> tup.items[3]]
    ELSE IF isinstance_tuple(tup) /\ Len(tup.items) = 2
    THEN [bound |-> TRUE, n |-> tup.items[1], v |-> tup.items[2], kw |-> <<>>]
    ELSE loc

\* The loop of lines 369-388 from its i-th entry on; st holds the registry,
\* the locals and the outcome.
RECURSIVE InitializeVariablesLoop(_, _, _)
InitializeVariablesLoop(st, name, i) ==
    IF i > Len(name.items) THEN st
    ELSE LET tup == name.items[i]
             badtup == BadTup(tup)
             loc == Unpacked(st.loc, tup)
         IN  IF PyBool(badtup)
             THEN [st EXCEPT !.loc = loc,
                             !.ret = Raised("ValueError",
                                            IF isinstance_string_types(badtup)
                                            THEN name ELSE badtup)]
             ELSE IF ~loc.bound
             THEN [st EXCEPT !.ret = Raised("UnboundLocalError", StrObj("n"))]
             ELSE InitializeVariablesLoop(
                      [st EXCEPT !.loc = loc,
                                 !.reg = AddVariable(@, loc.n, "output", loc.v,
                                                     loc.kw)],
                      name, i + 1)

InitializeVariablesSteps(reg, ind, kwargs) ==
    LET st0 == [reg |-> reg, loc |-> Locals0, ret |-> NoError]
    IN  IF isinstance_string_types(ind.name)
        THEN [st0 EXCEPT !.reg = AddVariable(reg, ind.name.str, "output",
                                             ind.val, kwargs)]
        ELSE IF isinstance_Iterable(ind.name)
        THEN InitializeVariablesLoop(st0, ind.name, 1)
        ELSE [st0 EXCEPT !.ret = Raised("ValueError", ind.name)]

\* The owner calls initialize_variables once, on a component that was built.
IndepVarComp_initialize_variables ==
    /\ op = "__init__"
    /\ ret = NoError
    /\ LET st == InitializeVariablesSteps(Registry, indep, metadata)
       IN  /\ SetRegistry(st.reg)
           /\ ret' = st.ret
    /\ op' = "initialize_variables"
    /\ prevOp' = op
    /\ args' = <<>>
    /\ calls' = <<>>
    /\ pre' = Registry
    /\ UNCHANGED <<vecVars, dVars, jacVars, cfgVars, ivcVars, graphVars>>

\* The entries, names, values and keyword arguments an IndepVarComp is built
\* from: well-formed 2- and 3-tuples, tuples of other lengths, and objects
\* that are no tuple.
Entries ==
    {TupleObj(<<"x", PyFloat(1)>>),
     TupleObj(<<"y", PyFloat(2), [units |-> "m"]>>),
     TupleObj(<<"z">>),
     TupleObj(<<"z", PyFloat(1), <<>>, PyFloat(2)>>),
     TupleObj(<<>>),
     NoneObj,
     IntObj(0),
     IntObj(3),
     ListObj(<<"z", PyFloat(1)>>),
     ListObj(<<>>),
     StrObj("z")}

RECURSIVE SeqsUpTo(_, _)
SeqsUpTo(S, n) ==
    IF n = 0 THEN {<<>>}
    ELSE LET shorter == SeqsUpTo(S, n - 1)
         IN  shorter \cup {Append(s, e) : s \in shorter, e \in S}

\* The entries of the longer iterables: a well-formed tuple, an object that
\* is no tuple and counts as false, and a 1-tuple.
LongEntries == {TupleObj(<<"x", PyFloat(1)>>), NoneObj, TupleObj(<<"z">>)}

IndepNames ==
    {StrObj("x"), IntObj(3)}
        \cup {ListObj(s) : s \in SeqsUpTo(Entries, MaxEntries)}
        \cup {ListObj(s) : s \in [1..(MaxEntries + 1) -> LongEntries]}

IndepVals == {PyFloat(1), PyFloat(2)}

IndepKwargs ==
    {<<>>, [units |-> "m"], [promotes |-> <<"*">>],
     [promotes_inputs |-> <<"x">>], [promotes_outputs |-> <<"x">>],
     [units |-> "m", promotes_outputs |-> <<"x">>]}

InitIVC ==
    /\ allprocs_names = EmptyRegistry.all
    /\ myproc_names = EmptyRegistry.my
    /\ myproc_metadata = EmptyRegistry.meta
    /\ inputs = <<>>
    /\ outputs = <<>>
    /\ residuals = <<>>
    /\ d_outputs = <<>>
    /\ d_residuals = <<>>
    /\ jacobian = <<>>
    /\ jac_system = "None"
    /\ computeKind = "noop"
    /\ nl_solver = FALSE
    /\ ln_solver = FALSE
    /\ NoIndepVarComp
    /\ NoGraph
    /\ op = "init"
    /\ prevOp = "init"
    /\ args = <<>>
    /\ calls = <<>>
    /\ ret = NoError
    /\ pre = EmptyRegistry

NextIVC ==
    \/ \E name \in IndepNames, val \in IndepVals, kwargs \in IndepKwargs :
          IndepVarComp_init(name, val, kwargs)
    \/ IndepVarComp_initialize_variables

SpecIVC == InitIVC /\ [][NextIVC]_vars

----------------------------------------------------------------------------
(* graph_utils.  A networkx DiGraph keeps its nodes, and the successors of *)
(* each node, in the order they were added; iterating the graph gives the  *)
(* nodes, graph[n] the successors of n.                                    *)

EmptyGraph == [nodes |-> <<>>, adj |-> <<>>]

HasNode(G, n) == \E i \in 1..Len(G.nodes) : G.nodes[i] = n

HasEdge(G, u, v) ==
    HasNode(G, u) /\ \E k \in 1..Len(G.adj[u]) : G.adj[u][k] = v

NumEdges(G) ==
    LET RECURSIVE Sum(_)
        Sum(i) == IF i = 0 THEN 0 ELSE Len(G.adj[G.nodes[i]]) + Sum(i - 1)
    IN  Sum(Len(G.nodes))

\* The nodes no edge enters or leaves.
Isolated(G) ==
    {n \in DOMAIN G.adj :
        G.adj[n] = <<>> /\ \A m \in DOMAIN G.adj : ~HasEdge(G, m, n)}

\* The size of a graph: its edges and its isolated nodes.
GraphSize(G) == NumEdges(G) + Cardinality(Isolated(G))

\* DiGraph.add_node
AddNode(G, n) ==
    IF HasNode(G, n) THEN G
    ELSE [nodes |-> Append(G.nodes, n),
          adj   |-> [m \in DOMAIN G.adj \cup {n} |->
                        IF m = n THEN <<>> ELSE G.adj[m]]]

\* DiGraph.add_edge
AddEdge(G, u, v) ==
    LET G2 == AddNode(AddNode(G, u), v)
    IN  IF HasEdge(G2, u, v) THEN G2
        ELSE [G2 EXCEPT !.adj[u] = Append(@, v)]

(* networkx.strongly_connected_components: the nonrecursive version of     *)
(* Tarjan's algorithm with Nuutila's modifications.  st holds its locals   *)
(* preorder (0 for a node not numbered yet), lowlink, scc_found,           *)
(* scc_queue, i and queue, and the components yielded so far in out.       *)

SccState0(G) ==
    [preorder  |-> [n \in DOMAIN G.adj |-> 0],
     lowlink   |-> [n \in DOMAIN G.adj |-> 0],
     scc_found |-> {},
     scc_queue |-> <<>>,
     i         |-> 0,
     queue     |-> <<>>,
     out       |-> <<>>]

Min(a, b) == IF a < b THEN a ELSE b

\* The position in nbrs of the first node without a preorder number, or 0.
FirstUnnumbered(nbrs, preorder) ==
    LET idx == {k \in 1..Len(nbrs) : preorder[nbrs[k]] = 0}
    IN  IF idx = {} THEN 0 ELSE CHOOSE k \in idx : \A j \in idx : k <= j

\* lowlink[v] after the loop over the successors of v, from the k-th on.
RECURSIVE LowLinkOf(_, _, _, _, _)
LowLinkOf(st, v, nbrs, k, low) ==
    IF k > Len(nbrs) THEN low
    ELSE LET w == nbrs[k]
             low2 == IF w \in st.scc_found THEN low
                     ELSE IF st.preorder[w] > st.preorder[v]
                          THEN Min(low, st.lowlink[w])
                          ELSE Min(low, st.preorder[w])
         IN  LowLinkOf(st, v, nbrs, k + 1, low2)

\* while scc_queue and preorder[scc_queue[-1]] > preorder[v]: pop into scc
RECURSIVE PopScc(_, _, _)
PopScc(st, v, scc) ==
    IF st.scc_queue # <<>> /\
       st.preorder[st.scc_queue[Len(st.scc_queue)]] > st.preorder[v]
    THEN LET k == st.scc_queue[Len(st.scc_queue)]
         IN  PopScc([st EXCEPT !.scc_queue = SubSeq(@, 1, Len(@) - 1),
                               !.scc_found = @ \cup {k}],
                    v, scc \cup {k})
    ELSE [st EXCEPT !.out = Append(@, scc)]

\* while queue: ...
RECURSIVE SccWhile(_, _)
SccWhile(G, st0) ==
    IF st0.queue = <<>> THEN st0
    ELSE LET v == st0.queue[Len(st0.queue)]
             st == IF st0.preorder[v] = 0
                   THEN [st0 EXCEPT !.i = @ + 1, !.preorder[v] = st0.i + 1]
                   ELSE st0
             nbrs == G.adj[v]
             k == FirstUnnumbered(nbrs, st.preorder)
         IN  IF k # 0
             THEN SccWhile(G, [st EXCEPT !.queue = Append(@, nbrs[k])])
             ELSE LET low == LowLinkOf(st, v, nbrs, 1, st.preorder[v])
                      st2 == [st EXCEPT !.lowlink[v] = low,
                                        !.queue = SubSeq(@, 1, Len(@) - 1)]
                  IN  IF low = st.preorder[v]
                      THEN SccWhile(G,
                               PopScc([st2 EXCEPT !.scc_found = @ \cup {v}],
                                      v, {v}))
                      ELSE SccWhile(G, [st2 EXCEPT !.scc_queue = Append(@, v)])

\* for source in G: ... from the j-th node on
RECURSIVE SccFor(_, _, _)
SccFor(G, st, j) ==
    IF j > Len(G.nodes) THEN st
    ELSE LET source == G.nodes[j]
         IN  IF source \in st.scc_found THEN SccFor(G, st, j + 1)
             ELSE SccFor(G, SccWhile(G, [st EXCEPT !.queue = <<source>>]), j + 1)

strongly_connected_components(G) == SccFor(G, SccState0(G), 1).out

Reversed(s) == [k \in 1..Len(s) |-> s[Len(s) + 1 - k]]

\* get_sccs_topo losing the component the library yields last.
C17_get_sccs_topo_DropsOne(G) ==
    LET sccs == Reversed(strongly_connected_components(G))
    IN  SubSeq(sccs, 2, Len(sccs))

\* get_sccs_topo without the reversal.
C18_get_sccs_topo_Unreversed(G) == strongly_connected_components(G)

get_sccs_topo(G) == Reversed(strongly_connected_components(G))

(* The graph is built first, by add_edge and then add_node for the nodes   *)
(* without edges; get_sccs_topo is then called on it.                      *)

SccNodes == {"P", "A", "B", "C"}

DiGraph_add_node(N, n) ==
    /\ op = "init"
    /\ n \in N
    /\ ~HasNode(graph, n)
    /\ GraphSize(AddNode(graph, n)) <= MaxEdges
    /\ graph' = AddNode(graph, n)
    /\ UNCHANGED <<regVars, vecVars, dVars, jacVars, cfgVars, ivcVars,
                   obsVars, visited, stack, yielded>>

DiGraph_add_edge(N, u, v) ==
    /\ op = "init"
    /\ u \in N /\ v \in N
    /\ ~HasEdge(graph, u, v)
    /\ NumEdges(graph) < MaxEdges
    /\ graph' = AddEdge(graph, u, v)
    /\ UNCHANGED <<regVars, vecVars, dVars, jacVars, cfgVars, ivcVars,
                   obsVars, visited, stack, yielded>>

Call_get_sccs_topo ==
    /\ op = "init"
    /\ ret' = get_sccs_topo(graph)
    /\ op' = "get_sccs_topo"
    /\ prevOp' = op
    /\ UNCHANGED <<regVars, vecVars, dVars, jacVars, cfgVars, ivcVars,
                   graphVars, args, calls, pre>>

InitGraph ==
    /\ allprocs_names = EmptyRegistry.all
    /\ myproc_names = EmptyRegistry.my
    /\ myproc_metadata = EmptyRegistry.meta
    /\ inputs = <<>>
    /\ outputs = <<>>
    /\ residuals = <<>>
    /\ d_outputs = <<>>
    /\ d_residuals = <<>>
    /\ jacobian = <<>>
    /\ jac_system = "None"
    /\ computeKind = "noop"
    /\ nl_solver = FALSE
    /\ ln_solver = FALSE
    /\ NoIndepVarComp
    /\ graph = EmptyGraph
    /\ visited = {}
    /\ stack = <<>>
    /\ yielded = <<>>
    /\ op = "init"
    /\ prevOp = "init"
    /\ args = <<>>
    /\ calls = <<>>
    /\ ret = <<>>
    /\ pre = <<>>

NextScc ==
    \/ \E n \in SccNodes : DiGraph_add_node(SccNodes, n)
    \/ /\ Isolated(graph) = {}
       /\ \E u \in SccNodes, v \in SccNodes : DiGraph_add_edge(SccNodes, u, v)
    \/ Call_get_sccs_topo

SpecScc == InitGraph /\ [][NextScc]_vars

(* all_connected_edges: a generator.  Calling it binds its locals; the     *)
(* consumer then draws its edges.  One step of the model is one iteration  *)
(* of the  while stack:  loop, which pops a node and yields all the edges  *)
(* that leave it; calls records the nodes popped, in order.                *)

\* The loop yielding only the edges that lead to a node not visited yet.
RECURSIVE C28_ForTgt_YieldToUnvisited(_, _, _, _)
C28_ForTgt_YieldToUnvisited(st, src, nbrs, k) ==
    IF k > Len(nbrs) THEN st
    ELSE LET tgt == nbrs[k]
         IN  C28_ForTgt_YieldToUnvisited(
                 IF tgt \notin st.visited
                 THEN [st EXCEPT !.yielded = Append(@, <<src, tgt>>),
                                 !.visited = @ \cup {tgt},
                                 !.stack = Append(@, tgt)]
                 ELSE st,
                 src, nbrs, k + 1)

\* The loop pushing every target, visited or not.
RECURSIVE C20_ForTgt_PushAll(_, _, _, _)
C20_ForTgt_PushAll(st, src, nbrs, k) ==
    IF k > Len(nbrs) THEN st
    ELSE C20_ForTgt_PushAll(
             [st EXCEPT !.yielded = Append(@, <<src, nbrs[k]>>),
                        !.stack = Append(@, nbrs[k])],
             src, nbrs, k + 1)

\* for tgt in graph[src]: ... from the k-th successor on
RECURSIVE ForTgt(_, _, _, _)
ForTgt(st, src, nbrs, k) ==
    IF k > Len(nbrs) THEN st
    ELSE LET tgt == nbrs[k]
             st1 == [st EXCEPT !.yielded = Append(@, <<src, tgt>>)]
         IN  ForTgt(IF tgt \notin st1.visited
                    THEN [st1 EXCEPT !.visited = @ \cup {tgt},
                                     !.stack = Append(@, tgt)]
                    ELSE st1,
                    src, nbrs, k + 1)

\* One iteration of the while loop.
WhileIteration(G, st) ==
    LET src == st.stack[Len(st.stack)]
    IN  ForTgt([st EXCEPT !.stack = SubSeq(@, 1, Len(@) - 1)],
               src, G.adj[src], 1)

Traversal == [visited |-> visited, stack |-> stack, yielded |-> yielded]

Call_all_connected_edges(start) ==
    /\ op = "init"
    /\ HasNode(graph, start)
    /\ visited' = {}
    /\ stack' = <<start>>
    /\ yielded' = <<>>
    /\ op' = "all_connected_edges"
    /\ prevOp' = op
    /\ args' = [start |-> start]
    /\ calls' = <<>>
    /\ UNCHANGED <<regVars, vecVars, dVars, jacVars, cfgVars, ivcVars,
                   graph, ret, pre>>

all_connected_edges_next ==
    /\ op = "all_connected_edges"
    /\ stack # <<>>
    /\ LET st == WhileIteration(graph, Traversal)
       IN  /\ visited' = st.visited
           /\ stack' = st.stack
           /\ yielded' = st.yielded
    /\ calls' = Append(calls, stack[Len(stack)])
    /\ UNCHANGED <<regVars, vecVars, dVars, jacVars, cfgVars, ivcVars,
                   graph, op, prevOp, args, ret, pre>>

\* A second call with the same arguments, made when the first generator is
\* exhausted; pre keeps what the first one yielded.
Call_all_connected_edges_again ==
    /\ op = "all_connected_edges"
    /\ prevOp = "init"
    /\ stack = <<>>
    /\ pre' = [yielded |-> yielded, calls |-> calls]
    /\ visited' = {}
    /\ stack' = <<args.start>>
    /\ yielded' = <<>>
    /\ calls' = <<>>
    /\ prevOp' = op
    /\ UNCHANGED <<regVars, vecVars, dVars, jacVars, cfgVars, ivcVars,
                   graph, op, args, ret>>

EdgeNodes == {"A", "B", "C", "D"}

\* The graph with the nodes A, B, C, D and no edge.
GraphABCD == AddNode(AddNode(AddNode(AddNode(EmptyGraph, "A"), "B"), "C"), "D")

InitEdges ==
    /\ allprocs_names = EmptyRegistry.all
    /\ myproc_names = EmptyRegistry.my
    /\ myproc_metadata = EmptyRegistry.meta
    /\ inputs = <<>>
    /\ outputs = <<>>
    /\ residuals = <<>>
    /\ d_outputs = <<>>
    /\ d_residuals = <<>>
    /\ jacobian = <<>>
    /\ jac_system = "None"
    /\ computeKind = "noop"
    /\ nl_solver = FALSE
    /\ ln_solver = FALSE
    /\ NoIndepVarComp
    /\ graph = GraphABCD
    /\ visited = {}
    /\ stack = <<>>
    /\ yielded = <<>>
    /\ op = "init"
    /\ prevOp = "init"
    /\ args = <<>>
    /\ calls = <<>>
    /\ ret = <<>>
    /\ pre = <<>>

NextEdges ==
    \/ \E u \in EdgeNodes, v \in EdgeNodes : DiGraph_add_edge(EdgeNodes, u, v)
    \/ \E start \in EdgeNodes : Call_all_connected_edges(start)
    \/ all_connected_edges_next
    \/ Call_all_connected_edges_again

SpecEdges == InitEdges /\ [][NextEdges]_vars

\* The consumer of the generator draws from it until it is exhausted.
SpecEdgesFair == SpecEdges /\ WF_vars(all_connected_edges_next)

----------------------------------------------------------------------------
(* The linear apply of an explicit component (one input x, one output y).  *)

\* The vector over the outputs whose entries all hold a.
Fill(a) == [n \in {"y"} |-> [k \in 1..Size(n) |-> a]]

\* What the user's compute_jacvec_product does with the vector it is handed
\* in place of d_outputs: it leaves it alone, adds c to it, or raises.
Callbacks ==
    {[kind |-> "untouched", c |-> 0], [kind |-> "raises", c |-> 0]}
        \cup {[kind |-> "adds", c |-> 1]}

\* What one pass of the loop meets: the value the stored Jacobian's apply
\* leaves in d_residuals, and the behaviour of the callback.
Runs == [applied : DVals, callback : Callbacks]

RunLists(n) == [1..n -> Runs]

\* The part of the state _apply_linear reads and writes.
ApplyLinState == [d_residuals |-> d_residuals, jac_system |-> jac_system]

\* self._jacobian._apply(d_inputs, d_outputs, d_residuals, mode): the stored
\* Jacobian's contribution, after which d_residuals holds `applied`.
Jacobian_apply(vec, applied) == Fill(applied)

\* self.compute_jacvec_product(inputs, outputs, d_inputs, d_residuals, mode)
compute_jacvec_product(st, vec_name, callback) ==
    LET called == Log(st, "compute_jacvec_product")
    IN  IF callback.kind = "raises" THEN Raise(called, "Exception")
        ELSE IF callback.kind = "adds"
             THEN [called EXCEPT !.d_residuals[vec_name] =
                                     Vec_iadd(@, Fill(callback.c))]
             ELSE called

\* A variant of the loop body that negates d_residuals only once.
C22_ApplyLinearVec_OneNegation(st, vec_name, run) ==
    LET s1 == [st EXCEPT !.jac_system = "self"]
        s2 == Log([s1 EXCEPT !.d_residuals[vec_name] =
                       Jacobian_apply(@, run.applied)], "jacobian._apply")
        s3 == Log([s2 EXCEPT !.d_residuals[vec_name] = Vec_imul(@, -1)],
                  "d_residuals.__imul__")
        s4 == compute_jacvec_product(s3, vec_name, run.callback)
    IN  IF s4.raised # "None" THEN s4 ELSE Log(s4, "d_residuals.__imul__")

(* ExplicitComponent._apply_linear: the body of the loop for one vec_name. *)
(* An error the callback raises leaves the body at once.                   *)
ApplyLinearVec(st, vec_name, run) ==
    LET \* self._jacobian._system = self
        s1 == [st EXCEPT !.jac_system = "self"]
        \* self._jacobian._apply(d_inputs, d_outputs, d_residuals, mode)
        s2 == Log([s1 EXCEPT !.d_residuals[vec_name] =
                       Jacobian_apply(@, run.applied)], "jacobian._apply")
        \* d_residuals *= -1.0
        s3 == Log([s2 EXCEPT !.d_residuals[vec_name] = Vec_imul(@, -1)],
                  "d_residuals.__imul__")
        s4 == compute_jacvec_product(s3, vec_name, run.callback)
    IN  IF s4.raised # "None" THEN s4
        \* d_residuals *= -1.0
        ELSE Log([s4 EXCEPT !.d_residuals[vec_name] = Vec_imul(@, -1)],
                 "d_residuals.__imul__")

RECURSIVE ExplicitApplyLinearLoop(_, _, _, _)
ExplicitApplyLinearLoop(st, vec_names, runs, i) ==
    IF i > Len(vec_names) \/ st.raised # "None" THEN st
    ELSE ExplicitApplyLinearLoop(ApplyLinearVec(st, vec_names[i], runs[i]),
                                 vec_names, runs, i + 1)

Explicit_apply_linear(vec_names, mode, runs) ==
    LET st == ExplicitApplyLinearLoop(EnteredLin(ApplyLinState),
                                      vec_names, runs, 1)
    IN  /\ d_residuals' = st.d_residuals
        /\ jac_system' = st.jac_system
        /\ calls' = st.calls
        /\ ret' = st.raised
        /\ op' = "_apply_linear"
        /\ prevOp' = op
        /\ args' = [vec_names |-> vec_names, mode |-> mode, runs |-> runs]
        /\ pre' = ApplyLinState
        /\ UNCHANGED <<regVars, vecVars, d_outputs, jacobian, cfgVars,
                       ivcVars, graphVars>>

\* The mode is only handed on to the context, Jacobian and callback.
ApplyModes == {"fwd"}

\* The vec_names a caller passes: each derivative vector at most once.
ApplyVecNameLists ==
    {<<>>, <<"linear">>, <<"adjoint">>, <<"linear", "adjoint">>}

InitApplyLin ==
    /\ allprocs_names = RegXY.all
    /\ myproc_names = RegXY.my
    /\ myproc_metadata = RegXY.meta
    /\ inputs = VecOver({"x"})
    /\ outputs = VecOver({"y"})
    /\ residuals = VecOver({"y"})
    /\ d_outputs = [v \in VecNames |-> VecOver({"y"})]
    /\ d_residuals = [v \in VecNames |-> VecOver({"y"})]
    /\ jacobian = EmptyJac
    /\ jac_system = "None"
    /\ computeKind = "noop"
    /\ nl_solver = FALSE
    /\ ln_solver = FALSE
    /\ NoIndepVarComp
    /\ NoGraph
    /\ op = "init"
    /\ prevOp = "init"
    /\ args = <<>>
    /\ calls = <<>>
    /\ ret = "None"
    /\ pre = ApplyLinState

NextApplyLin ==
    \E vec_names \in ApplyVecNameLists, mode \in ApplyModes :
        \E runs \in RunLists(Len(vec_names)) :
            Explicit_apply_linear(vec_names, mode, runs)

SpecApplyLin == InitApplyLin /\ [][NextApplyLin]_vars

----------------------------------------------------------------------------

(* Claims on the nonlinear contract of an explicit component (SpecNL).     *)

Count(seq, x) == Cardinality({i \in DOMAIN seq : seq[i] = x})

\* What compute wrote, or left, in the outputs during the last call.
Computed == compute(computeKind, pre.inputs, pre.outputs)

\* C1: when compute writes the outputs as a function f of the inputs, a
\* _solve_nonlinear directly followed by an _apply_nonlinear (no method
\* writes the inputs in between) leaves every entry of the residual vector
\* at zero, whatever the outputs and residuals held before the two calls.
C1_SolveThenApplyZero ==
    (op = "_apply_nonlinear" /\ prevOp = "_solve_nonlinear"
        /\ computeKind # "noop")
    => ZeroVec(residuals)

C1_Witness ==
    /\ op = "_apply_nonlinear"
    /\ prevOp = "_solve_nonlinear"
    /\ computeKind = "affine"
    /\ inputs["x"][1] = 1
    /\ outputs = F("affine", inputs)
    /\ ZeroVec(residuals)

\* C2 as stated: after _apply_nonlinear the outputs equal their value at
\* the entry of the call, the residual is (outputs at entry) - f(inputs),
\* and it is zero exactly when the outputs at entry equalled f(inputs).
C2_OutputsRestoredExactly ==
    op = "_apply_nonlinear" =>
        /\ outputs = pre.outputs
        /\ residuals = Vec_isub(pre.outputs, Computed)
        /\ ZeroVec(residuals) <=> (pre.outputs = Computed)

\* C2 as amended: the residual is the floating-point difference
\* (outputs at entry) - f(inputs), zero exactly when the two are equal; the
\* outputs end as f(inputs) + residual, which is the value at entry in every
\* entry whose difference is exactly representable (so whenever the outputs
\* already equalled f(inputs)) and a rounding of it otherwise.
C2_ApplyNonlinearNetEffect ==
    op = "_apply_nonlinear" =>
        /\ \A n \in OutNames : \A k \in 1..Size(n) :
              /\ residuals[n][k] = Fl(pre.outputs[n][k] - Computed[n][k])
              /\ outputs[n][k] = Fl(Computed[n][k] + residuals[n][k])
              /\ Representable(pre.outputs[n][k] - Computed[n][k])
                    => outputs[n][k] = pre.outputs[n][k]
        /\ ZeroVec(residuals) <=> (pre.outputs = Computed)
        /\ inputs = pre.inputs

C2_Witness ==
    /\ op = "_apply_nonlinear"
    /\ computeKind = "double"
    /\ pre.outputs # Computed
    /\ ~ZeroVec(residuals)
    /\ outputs = pre.outputs
    /\ pre.residuals # residuals

\* C3: _solve_nonlinear zeroes the residual vector and then calls compute
\* exactly once: afterwards the residual is zero whatever it held, the
\* outputs are f(inputs) (untouched under the default no-op compute) and
\* the inputs are unchanged.
C3_SolveNonlinear ==
    op = "_solve_nonlinear" =>
        /\ ZeroVec(residuals)
        /\ calls = <<"residuals.set_const", "compute">>
        /\ Count(calls, "compute") = 1
        /\ inputs = pre.inputs
        /\ computeKind # "noop" => outputs = F(computeKind, inputs)
        /\ computeKind = "noop" => outputs = pre.outputs

C3_Witness ==
    /\ op = "_solve_nonlinear"
    /\ computeKind = "double"
    /\ ~ZeroVec(pre.residuals)
    /\ outputs # pre.outputs
    /\ outputs = F("double", pre.inputs)
    /\ ZeroVec(residuals)

----------------------------------------------------------------------------
(* Claims on the variable registry (SpecReg).                              *)

Declaring == op \in {"add_input", "add_output"}

\* C10: an add_input / add_output call under a name the component has
\* already declared (as an input or as an output) is rejected with an
\* error, and the three lists are left as they were before the call.
C10_DuplicateRejected ==
    (Declaring /\ IsDeclared(pre, args.name))
    => (ret # "None" /\ Registry = pre)

----------------------------------------------------------------------------
(* Claims on the linearization of an explicit component (SpecJac).         *)

DeclaredOutputs == Range(myproc_names["output"])
DeclaredInputs  == Range(myproc_names["input"])

\* No name is declared twice, as an input or as an output.
DistinctNames ==
    /\ DeclaredOutputs \cap DeclaredInputs = {}
    /\ \A t \in Typs : Cardinality(Range(myproc_names[t])) = Len(myproc_names[t])

\* C4: after _linearize, for every declared output o the stored block (o, o)
\* is the identity of o's flat size, (ones, arange, arange), whatever
\* compute_jacobian wrote.
C4_DiagonalIsIdentity ==
    op = "_linearize" =>
        \A o \in DeclaredOutputs :
            /\ Jac_contains(jacobian, <<o, o>>)
            /\ jacobian[<<o, o>>] = Identity(Size(o))

\* C4 for the components whose declared names are distinct.
C4_DiagonalIsIdentity_DistinctNames == DistinctNames => C4_DiagonalIsIdentity

\* C5: after _linearize, every block compute_jacobian supplied at a key
\* (output, input) is stored negated; a key (output, input) it did not
\* supply and that held no block stays absent; a block supplied at
\* (output, other output) is stored as supplied.
C5_InputBlocksNegated ==
    op = "_linearize" =>
        /\ \A o \in DeclaredOutputs, i \in DeclaredInputs :
              /\ <<o, i>> \in DOMAIN args.W
                    => jacobian[<<o, i>>] = Negated(args.W[<<o, i>>])
              /\ (<<o, i>> \notin DOMAIN args.W
                    /\ ~Jac_contains(pre.jacobian, <<o, i>>))
                    => ~Jac_contains(jacobian, <<o, i>>)
        /\ \A o \in DeclaredOutputs : \A o2 \in DeclaredOutputs \ {o} :
              <<o, o2>> \in DOMAIN args.W
                    => jacobian[<<o, o2>>] = args.W[<<o, o2>>]

\* C5 for the components whose declared names are distinct.
C5_InputBlocksNegated_DistinctNames == DistinctNames => C5_InputBlocksNegated

----------------------------------------------------------------------------
(* Claims on the linear solve of an explicit component (SpecLin).          *)

\* C6: _solve_linear(vec_names, mode) returns normally and, for every name
\* in vec_names, in 'fwd' mode d_outputs ends equal to d_residuals with
\* d_residuals unchanged, in 'rev' mode d_residuals ends equal to d_outputs
\* with d_outputs unchanged; the vectors of the other names are unchanged,
\* and any other mode changes nothing.
C6_SolveLinearCopies ==
    op = "_solve_linear" =>
        /\ ret = "None"
        /\ \A vn \in VecNames :
              IF vn \in Range(args.vec_names) /\ args.mode = "fwd"
              THEN /\ d_outputs[vn] = pre.d_residuals[vn]
                   /\ d_residuals[vn] = pre.d_residuals[vn]
              ELSE IF vn \in Range(args.vec_names) /\ args.mode = "rev"
              THEN /\ d_residuals[vn] = pre.d_outputs[vn]
                   /\ d_outputs[vn] = pre.d_outputs[vn]
              ELSE /\ d_outputs[vn] = pre.d_outputs[vn]
                   /\ d_residuals[vn] = pre.d_residuals[vn]

----------------------------------------------------------------------------
(* Claims on the solves of an implicit component (SpecImp).                *)

\* C7: _solve_nonlinear invokes exactly one solve per call: the attached
\* nonlinear sub-solver, and then not the component's solve_nonlinear, when
\* one is attached, otherwise the component's solve_nonlinear once; either
\* receives the component's inputs and outputs vectors.
C7_ExactlyOneNonlinearSolve ==
    op = "_solve_nonlinear" =>
        /\ Len(calls) = 1
        /\ calls[1].fn = IF pre.nl_solver THEN "_nl_solver"
                         ELSE "solve_nonlinear"
        /\ calls[1].args = <<"_inputs", "_outputs">>

C7_Witness ==
    /\ op = "_solve_nonlinear"
    /\ pre.nl_solver
    /\ Len(calls) = 1
    /\ calls[1].fn = "_nl_solver"

\* C8: when the solve that _solve_nonlinear invoked reports non-success
\* (returns False), _solve_nonlinear hands that non-success to its caller as
\* a status result, which tells an unconverged solve from a converged one.
C8_NonSuccessReported ==
    (op = "_solve_nonlinear" /\ Len(calls) = 1 /\ calls[1].result = "False")
    => ret = "False"

\* C9: without a linear sub-solver, _solve_linear calls solve_linear once
\* for every name of vec_names, in order, also after a call that failed,
\* and returns success exactly when every call did (so for an empty
\* vec_names); with a linear sub-solver it returns that solver's result and
\* never calls solve_linear.
C9_SolveLinearSuccess ==
    op = "_solve_linear" =>
        IF pre.ln_solver
        THEN /\ Len(calls) = 1
             /\ calls[1].fn = "_ln_solver"
             /\ calls[1].args = <<args.vec_names, args.mode>>
             /\ ret = calls[1].result
        ELSE /\ Len(calls) = Len(args.vec_names)
             /\ \A i \in 1..Len(calls) :
                   /\ calls[i].fn = "solve_linear"
                   /\ calls[i].args = <<<<"output", args.vec_names[i]>>,
                                        <<"residual", args.vec_names[i]>>,
                                        args.mode>>
             /\ Truthy(ret) <=> \A i \in 1..Len(calls) : Truthy(calls[i].result)
             /\ args.vec_names = <<>> => ret = "True"

C9_Witness ==
    /\ op = "_solve_linear"
    /\ ~pre.ln_solver
    /\ Len(args.vec_names) = 2
    /\ Len(calls) = 2
    /\ ~Truthy(calls[1].result)
    /\ Truthy(calls[2].result)
    /\ ~Truthy(ret)

----------------------------------------------------------------------------
(* Claims on the declarations (SpecReg).                                   *)

OtherTyp(t) == IF t = "input" THEN "output" ELSE "input"

Last(s) == s[Len(s)]

\* C11: after any sequence of add_input / add_output calls the global name
\* list, the local name list and the metadata list of each kind have the
\* same length; a declaration appends its name and its metadata at the end
\* of the three lists of its kind, behind the entries of the earlier
\* declarations (so the i-th entries describe the i-th variable declared of
\* that kind), and leaves the three lists of the other kind unchanged.
C11_ParallelLists ==
    /\ \A t \in Typs :
          /\ Len(allprocs_names[t]) = Len(myproc_names[t])
          /\ Len(myproc_names[t]) = Len(myproc_metadata[t])
    /\ op \in {"add_input", "add_output"} =>
          LET t == args.typ
              u == OtherTyp(args.typ)
          IN  /\ op = "add_" \o t
              /\ allprocs_names[t] = Append(pre.all[t], args.name)
              /\ myproc_names[t] = Append(pre.my[t], args.name)
              /\ SubSeq(myproc_metadata[t], 1, Len(pre.meta[t])) = pre.meta[t]
              /\ Len(myproc_metadata[t]) = Len(pre.meta[t]) + 1
              /\ Last(myproc_metadata[t])["value"] = args.val
              /\ allprocs_names[u] = pre.all[u]
              /\ myproc_names[u] = pre.my[u]
              /\ myproc_metadata[u] = pre.meta[u]

\* Two inputs declared, "y" before "x", with different default values.
C11_Witness ==
    /\ op = "add_input"
    /\ prevOp = "add_input"
    /\ myproc_names["input"] = <<"y", "x">>
    /\ allprocs_names["input"] = <<"y", "x">>
    /\ myproc_metadata["input"][1]["value"] = PyFloat(2)
    /\ myproc_metadata["input"][2]["value"] = PyList(<<1, 2>>)
    /\ myproc_names["output"] = <<>>

\* C12: an input declared with an array default and no explicit indices gets
\* the indices 0 .. size-1 in order and the array's shape (a 2x3 array gets
\* the indices 0..5 and the shape (2, 3)); when the caller gives indices, the
\* indices recorded are exactly the ones given.
C12_InputIndices ==
    op = "add_input" =>
        LET m == Last(myproc_metadata["input"])
            n == Len(args.val.flat)
        IN  /\ (isinstance_ndarray(args.val) /\ "indices" \notin DOMAIN args.kwargs)
                  => /\ m["indices"].flat = [i \in 1..n |-> i - 1]
                     /\ m["shape"] = args.val.shape
            /\ "indices" \in DOMAIN args.kwargs
                  => m["indices"].flat = args.kwargs["indices"].flat

\* A 2x3 array input without indices, then an array input with indices given.
C12_Witness ==
    /\ op = "add_input"
    /\ prevOp = "add_input"
    /\ myproc_metadata["input"][1]["indices"].flat = <<0, 1, 2, 3, 4, 5>>
    /\ myproc_metadata["input"][1]["shape"] = <<2, 3>>
    /\ isinstance_ndarray(args.val)
    /\ "indices" \in DOMAIN args.kwargs
    /\ myproc_metadata["input"][2]["indices"].flat = <<1, 0>>

----------------------------------------------------------------------------
(* Claims on the setup of the vectors (SpecSetup).                         *)

\* C13: after _setup_vector with the default (unnamed) input vector the view
\* of every declared input holds that input's declared default value; with a
\* named (derivative-seed) vector no declared default is written.
C13_DefaultsWritten ==
    op = "_setup_vector" =>
        IF args.vec_name = "None"
        THEN /\ ret = "None"
             /\ \A i \in 1..Len(myproc_names["input"]) :
                   LET v == myproc_metadata["input"][i]["value"]
                       view == inputs[myproc_names["input"][i]]
                   IN  /\ CanAssign(view, v)
                       /\ view = Assigned(view, v)
        ELSE /\ ret = "None"
             /\ inputs = pre.inputs
             /\ ZeroVec(inputs)

\* The same for the components whose declared names are distinct.
C13_DefaultsWritten_DistinctNames == DistinctNames => C13_DefaultsWritten

----------------------------------------------------------------------------
(* Claims on IndepVarComp (SpecIVC).                                       *)

WellFormed(tup) == isinstance_tuple(tup) /\ Len(tup.items) \in {2, 3}

\* The component was built from an iterable and initialize_variables ran.
InitializedFromIterable ==
    /\ op = "initialize_variables"
    /\ ~isinstance_string_types(indep.name)
    /\ isinstance_Iterable(indep.name)

\* C14: an IndepVarComp built from an iterable of well-formed entries
\* (name, value) or (name, value, options) declares exactly one output per
\* entry, in the order of the entries, with the entry's name and value, and
\* no input; the options of a 3-tuple apply to its entry only, and a 2-tuple
\* gets the default options (units "") also when it follows a 3-tuple.
C14_OneOutputPerEntry ==
    (/\ InitializedFromIterable
     /\ \A i \in 1..Len(indep.name.items) : WellFormed(indep.name.items[i]))
    => LET entries == indep.name.items
       IN  /\ ret = NoError
           /\ myproc_names["input"] = <<>>
           /\ myproc_metadata["input"] = <<>>
           /\ Len(myproc_names["output"]) = Len(entries)
           /\ Len(myproc_metadata["output"]) = Len(entries)
           /\ \A i \in 1..Len(entries) :
                 LET m == myproc_metadata["output"][i]
                     e == entries[i].items
                 IN  /\ myproc_names["output"][i] = e[1]
                     /\ m["value"] = e[2]
                     /\ \A k \in DOMAIN DEFAULTS \ {"value"} :
                           m[k] = IF Len(e) = 3 /\ k \in DOMAIN e[3]
                                  THEN e[3][k] ELSE DEFAULTS[k]

\* A 3-tuple with units "m", then a 2-tuple: the second output has units "".
C14_Witness ==
    /\ InitializedFromIterable
    /\ Len(indep.name.items) = 2
    /\ Len(indep.name.items[1].items) = 3
    /\ Len(indep.name.items[2].items) = 2
    /\ indep.name.items[2].cls = "tuple"
    /\ myproc_names["output"] = <<"y", "x">>
    /\ myproc_metadata["output"][1]["units"] = "m"
    /\ myproc_metadata["output"][2]["units"] = ""

\* The position of the first entry that is no tuple of length 2 or 3.
FirstMalformed(entries) ==
    CHOOSE k \in 1..Len(entries) :
        /\ ~WellFormed(entries[k])
        /\ \A j \in 1..(k - 1) : WellFormed(entries[j])

\* C15: every entry that is not a tuple of length 2 or 3 (a 1-tuple ("z",),
\* a 4-tuple, the empty tuple, or a non-tuple such as None, 0 or a list)
\* makes initialize_variables raise a configuration error that identifies
\* the offending entry (for an entry that is a string, the entry or the
\* iterable holding it), and no output is declared for that entry.
C15_MalformedEntryRejected ==
    (/\ InitializedFromIterable
     /\ \E k \in 1..Len(indep.name.items) : ~WellFormed(indep.name.items[k]))
    => LET k == FirstMalformed(indep.name.items)
           bad == indep.name.items[k]
       IN  /\ ret.exc = "ValueError"
           /\ IF isinstance_string_types(bad)
              THEN ret.about = indep.name \/ ret.about = bad
              ELSE ret.about.cls = bad.cls /\ ret.about = bad
           /\ Len(myproc_names["output"]) = k - 1

\* The same for the malformed entries that Python counts as true: the
\* non-empty tuples, lists and strings and the numbers other than 0.
C15_TrueMalformedEntryRejected ==
    (/\ InitializedFromIterable
     /\ \E k \in 1..Len(indep.name.items) : ~WellFormed(indep.name.items[k])
     /\ \A k \in 1..Len(indep.name.items) :
           \/ WellFormed(indep.name.items[k])
           \/ PyBool(indep.name.items[k]))
    => C15_MalformedEntryRejected

\* C16: building an IndepVarComp with promotes, promotes_inputs or
\* promotes_outputs raises a configuration error, and at that moment no
\* output (and no input) is declared.
C16_PromotesRejected ==
    (/\ op = "__init__"
     /\ \E k \in {"promotes", "promotes_inputs", "promotes_outputs"} :
           k \in DOMAIN args.kwargs)
    => /\ ret.exc = "ValueError"
       /\ Registry = EmptyRegistry

C16_Witness ==
    /\ op = "__init__"
    /\ "promotes_outputs" \in DOMAIN args.kwargs
    /\ "units" \in DOMAIN args.kwargs
    /\ args.name.cls = "list"
    /\ Len(args.name.items) = 2
    /\ ret.exc = "ValueError"
    /\ myproc_names["output"] = <<>>

----------------------------------------------------------------------------
(* Claims on get_sccs_topo (SpecScc).                                      *)

\* The nodes one step away from the nodes of S.
Successors(G, S) == UNION {{G.adj[n][k] : k \in 1..Len(G.adj[n])} : n \in S}

\* The nodes reachable from n by a path of one or more edges.
RECURSIVE ReachedFrom(_, _)
ReachedFrom(G, S) ==
    LET T == S \cup Successors(G, S)
    IN  IF T = S THEN S ELSE ReachedFrom(G, T)

Reachable(G, n) == ReachedFrom(G, Successors(G, {n}))

MutuallyReachable(G, u, v) ==
    u = v \/ (v \in Reachable(G, u) /\ u \in Reachable(G, v))

Acyclic(G) == \A n \in DOMAIN G.adj : n \notin Reachable(G, n)

\* The positions of the sets of the list sccs that hold n.
PositionsOf(sccs, n) == {k \in 1..Len(sccs) : n \in sccs[k]}

PositionOf(sccs, n) == CHOOSE k \in 1..Len(sccs) : n \in sccs[k]

GraphPABC ==
    AddEdge(AddEdge(AddEdge(AddEdge(EmptyGraph, "P", "A"), "A", "B"),
                    "B", "C"), "C", "A")

\* C17: the sets get_sccs_topo returns partition the nodes of the graph (no
\* set is empty, every node is in exactly one set); two nodes are in the
\* same set exactly when each is reachable from the other; the sets of an
\* acyclic graph are singletons; and the graph P->A, A->B, B->C, C->A gives
\* exactly [{P}, {A, B, C}].
C17_SccsPartition ==
    op = "get_sccs_topo" =>
        /\ \A k \in 1..Len(ret) : ret[k] # {} /\ ret[k] \subseteq DOMAIN graph.adj
        /\ \A n \in DOMAIN graph.adj : Cardinality(PositionsOf(ret, n)) = 1
        /\ \A u \in DOMAIN graph.adj : \A v \in DOMAIN graph.adj :
              (PositionOf(ret, u) = PositionOf(ret, v))
                  <=> MutuallyReachable(graph, u, v)
        /\ Acyclic(graph) => \A k \in 1..Len(ret) : Cardinality(ret[k]) = 1
        /\ graph = GraphPABC => ret = <<{"P"}, {"A", "B", "C"}>>

C17_Witness ==
    /\ op = "get_sccs_topo"
    /\ graph = GraphPABC
    /\ ret = <<{"P"}, {"A", "B", "C"}>>

\* C18: for every edge u -> v whose endpoints are in different sets, the set
\* of u comes strictly before the set of v in the list get_sccs_topo
\* returns, whatever the order the nodes and edges were added in.
C18_TopologicalOrder ==
    op = "get_sccs_topo" =>
        \A u \in DOMAIN graph.adj : \A k \in 1..Len(graph.adj[u]) :
            LET v == graph.adj[u][k]
            IN  PositionOf(ret, u) # PositionOf(ret, v)
                    => PositionOf(ret, u) < PositionOf(ret, v)

\* The cycle A -> B -> C -> A added first and its producer P last: the set of
\* P is still first.
C18_Witness ==
    /\ op = "get_sccs_topo"
    /\ graph.nodes = <<"A", "B", "C", "P">>
    /\ graph.adj["P"] = <<"A">>
    /\ graph.adj["C"] = <<"A">>
    /\ graph.adj["A"] = <<"B">>
    /\ graph.adj["B"] = <<"C">>
    /\ ret = <<{"P"}, {"A", "B", "C"}>>

----------------------------------------------------------------------------
(* Claims on all_connected_edges (SpecEdges).                              *)

Exhausted == op = "all_connected_edges" /\ stack = <<>>

EdgesOf(G) ==
    UNION {{<<u, G.adj[u][k]>> : k \in 1..Len(G.adj[u])} : u \in DOMAIN G.adj}

\* The edges whose source is the start node or reachable from it.
ConnectedEdges(G, start) ==
    {e \in EdgesOf(G) : e[1] \in {start} \cup Reachable(G, start)}

\* C19: all_connected_edges expands each node at most once and yields every
\* edge whose source is reachable from the start node exactly once, also
\* when the start node lies on a cycle; on the graph A->B, B->C, C->A, A->D
\* from A it yields each of the four edges exactly once.
C19_EachEdgeOnce ==
    Exhausted =>
        /\ \A n \in DOMAIN graph.adj : Count(calls, n) <= 1
        /\ \A e \in ConnectedEdges(graph, args.start) : Count(yielded, e) = 1
        /\ \A k \in 1..Len(yielded) : yielded[k] \in ConnectedEdges(graph, args.start)

\* The same for the start nodes that lie on no cycle.
C19_EachEdgeOnce_StartOffCycle ==
    (Exhausted /\ args.start \notin Reachable(graph, args.start))
        => C19_EachEdgeOnce

\* What is left to do: every node not visited yet can be pushed once, and
\* every node on the stack is popped once.
Rank == 2 * Cardinality(DOMAIN graph.adj \ visited) + Len(stack)

\* C20: the traversal terminates, for every finite graph (with cycles and
\* self-loops) and every start node: every iteration of the loop lowers
\* Rank, which is never negative, and no more than twice the edges of the
\* graph are yielded; a traversal that is drawn from always reaches the
\* empty stack; and a second, fresh call with the same arguments yields the
\* same edges in the same order.
C20_Terminates ==
    /\ [][(op = "all_connected_edges" /\ Len(calls') = Len(calls) + 1)
             => (Rank' < Rank /\ Rank' >= 0)]_vars
    /\ [](op = "all_connected_edges"
             => Len(yielded) <= 2 * NumEdges(graph))
    /\ []<>(op = "init" \/ stack = <<>>)
    /\ []((Exhausted /\ prevOp = "all_connected_edges")
             => (yielded = pre.yielded /\ calls = pre.calls))

\* Started on a cycle that has a self-loop, the second call is exhausted
\* after the same six edges.
C20_Witness ==
    /\ Exhausted
    /\ prevOp = "all_connected_edges"
    /\ args.start = "A"
    /\ graph.adj["A"] = <<"A", "B">>
    /\ graph.adj["B"] = <<"C">>
    /\ graph.adj["C"] = <<"A">>
    /\ Len(yielded) = 6
    /\ yielded = pre.yielded

----------------------------------------------------------------------------
(* Claims on the residual of an explicit component (SpecNL).               *)

\* C21: the residual _apply_nonlinear leaves in the residual vector is
\* f(inputs) minus the outputs held before the call.
C21_ResidualIsFMinusOld ==
    op = "_apply_nonlinear" =>
        \A n \in OutNames : \A k \in 1..Size(n) :
            residuals[n][k] = Fl(Computed[n][k] - pre.outputs[n][k])

----------------------------------------------------------------------------
(* Claims on the linear apply of an explicit component (SpecApplyLin).     *)

\* The last pass of the loop that worked on the vector of vec_name.
LastRunOf(vec_name) ==
    args.runs[LastIndexOf(args.vec_names, vec_name)]

\* What the callback of a pass added to the vector it was handed.
Added(run) == IF run.callback.kind = "adds" THEN run.callback.c ELSE 0

\* C22: for every vec_name of the loop the stored Jacobian's apply runs
\* first, d_residuals is negated, compute_jacvec_product is called once with
\* d_residuals in the place of d_outputs, and d_residuals is negated again:
\* an untouched vector ends as the stored-Jacobian result, a callback that
\* adds c ends as that result minus c.
C22_JacvecSandwich ==
    (op = "_apply_linear" /\ ret = "None") =>
        /\ Len(calls) = 4 * Len(args.vec_names)
        /\ \A i \in 1..Len(args.vec_names) :
              /\ calls[4 * i - 3] = "jacobian._apply"
              /\ calls[4 * i - 2] = "d_residuals.__imul__"
              /\ calls[4 * i - 1] = "compute_jacvec_product"
              /\ calls[4 * i] = "d_residuals.__imul__"
        /\ \A v \in Range(args.vec_names) :
              d_residuals[v] =
                  Fill(Fl(LastRunOf(v).applied - Added(LastRunOf(v))))
        /\ \A v \in VecNames \ Range(args.vec_names) :
              d_residuals[v] = pre.d_residuals[v]

C22_Witness ==
    /\ op = "_apply_linear"
    /\ ret = "None"
    /\ args.vec_names = <<"linear", "adjoint">>
    /\ args.runs[1].applied = 1
    /\ args.runs[1].callback.kind = "adds"
    /\ d_residuals["linear"] = Fill(0)
    /\ args.runs[2].applied = 1
    /\ args.runs[2].callback.kind = "untouched"
    /\ d_residuals["adjoint"] = Fill(1)

\* The pass of the loop in which the callback raised.
RaisingRun ==
    CHOOSE k \in 1..Len(args.vec_names) :
        /\ args.runs[k].callback.kind = "raises"
        /\ \A j \in 1..(k - 1) : args.runs[j].callback.kind # "raises"

\* C23: when compute_jacvec_product raises, the sign flip is reverted before
\* the error leaves _apply_linear: d_residuals holds the value it had just
\* after the stored Jacobian's apply, not its negation.
C23_SignFlipReverted ==
    (op = "_apply_linear" /\ ret # "None") =>
        d_residuals[args.vec_names[RaisingRun]] =
            Fill(args.runs[RaisingRun].applied)

\* C24: the Jacobian refers to the component only while _apply_linear or
\* _linearize is running; once the call has returned it refers to no
\* component.
C24_BackReferenceReleased ==
    op \in {"_apply_linear", "_linearize"} => jac_system = "None"

----------------------------------------------------------------------------
(* Claims on the passes of _linearize over the Jacobian (SpecJac).         *)

\* The keys (output, input) of the declared names.
OutputInputKeys == DeclaredOutputs \X DeclaredInputs

\* Every stored (output, input) block is the negation of the value
\* compute_jacobian supplied last: the value of this call, or else the
\* block the calls before it left.
NegatedLastSupplied ==
    \A key \in OutputInputKeys \cap DOMAIN jacobian :
        IF key \in DOMAIN args.W
        THEN jacobian[key] = Negated(args.W[key])
        ELSE /\ Jac_contains(pre.jacobian, key)
             /\ jacobian[key] = pre.jacobian[key]

\* The update pass and then the precompute pass run once each, as the last
\* two steps of _linearize, after compute_jacobian and every block write.
C25_UpdateThenPrecompute ==
    op = "_linearize" =>
        /\ Len(calls) >= 3
        /\ calls[1] = "compute_jacobian"
        /\ calls[Len(calls) - 1] = "jacobian._update"
        /\ calls[Len(calls)] = "jacobian._precompute_iter"
        /\ \A k \in 2..(Len(calls) - 2) :
              calls[k] \in {"jacobian.setitem", "jacobian._negate"}
        /\ \A k \in 2..(Len(calls) - 3) :
              calls[k] = "jacobian._negate" => calls[k + 1] = "jacobian._negate"

\* C25: in _linearize the update pass and then the precompute pass run
\* exactly once per call, in that order, after the user's block writes, the
\* identity diagonals and the negations, so that the Jacobian the update pass
\* sees has an identity diagonal for every output and no un-negated
\* (output, input) block.
C25_PassesSeeFinishedBlocks ==
    /\ C25_UpdateThenPrecompute
    /\ op = "_linearize" =>
          /\ \A o \in DeclaredOutputs :
                /\ Jac_contains(jacobian, <<o, o>>)
                /\ jacobian[<<o, o>>] = Identity(Size(o))
          /\ NegatedLastSupplied

\* C25 for the first call on a component whose declared names are distinct.
C25_PassesSeeFinishedBlocks_FirstCall ==
    (DistinctNames /\ prevOp = "init") => C25_PassesSeeFinishedBlocks

\* C27: after one or more consecutive _linearize calls every stored
\* (output, input) block is the negation of the value compute_jacobian
\* supplied last; a block written in an earlier call only still holds the
\* negated value.
C27_NegationSurvivesCalls ==
    (op = "_linearize" /\ DistinctNames) => NegatedLastSupplied

----------------------------------------------------------------------------
(* Claims on the shape and indices a declaration records (SpecReg).        *)

\* The number of elements a shape stands for.
RECURSIVE ShapeSize(_)
ShapeSize(shape) ==
    IF shape = <<>> THEN 1 ELSE Head(shape) * ShapeSize(Tail(shape))

\* The number of elements of a value: a float has one.
NumElements(val) == Len(val.flat)

\* C26: after any add_input / add_output the recorded shape agrees with the
\* recorded value (it holds as many elements, and it is the array's shape
\* when the value is an array) and an input declared without explicit
\* indices records as many indices as the value has elements; for a float,
\* an array and a list default, also when the options carry another shape.
C26_ShapeAndIndicesFitValue ==
    Declaring =>
        LET m == Last(myproc_metadata[args.typ])
        IN  /\ ShapeSize(m["shape"]) = NumElements(m["value"])
            /\ isinstance_ndarray(m["value"]) => m["shape"] = m["value"].shape
            /\ (args.typ = "input" /\ "indices" \notin DOMAIN args.kwargs)
                  => Len(m["indices"].flat) = NumElements(m["value"])

\* C26 for the declarations whose value is an array, or a float declared
\* without a shape of its own.
C26_ShapeAndIndicesFitValue_ArrayOrFloat ==
    (Declaring /\ (isinstance_ndarray(args.val)
                      \/ (args.val.kind = "float"
                             /\ "shape" \notin DOMAIN args.kwargs)))
        => C26_ShapeAndIndicesFitValue

----------------------------------------------------------------------------
(* Claims on the set of edges all_connected_edges yields (SpecEdges).      *)

\* C28: taken as sets, the edges all_connected_edges(graph, start) yields
\* are exactly the edges of the graph whose source is start or reachable
\* from start: no edge with an unreachable source and nothing that is not an
\* edge is ever yielded, every such edge has been yielded when the generator
\* is exhausted, and the traversal does not modify the graph.
C28_YieldsConnectedEdges ==
    /\ [](op = "all_connected_edges"
             => Range(yielded) \subseteq ConnectedEdges(graph, args.start))
    /\ [](Exhausted => Range(yielded) = ConnectedEdges(graph, args.start))
    /\ [][op = "all_connected_edges" => graph' = graph]_vars

\* From A on the cycle A->B, B->A the two edges of the cycle are yielded and
\* the edge C->D, whose source A does not reach, is not.
C28_Witness ==
    /\ Exhausted
    /\ args.start = "A"
    /\ graph.adj["A"] = <<"B">>
    /\ graph.adj["B"] = <<"A">>
    /\ graph.adj["C"] = <<"D">>
    /\ Range(yielded) = {<<"A", "B">>, <<"B", "A">>}

----------------------------------------------------------------------------
(* Claims on the outputs declared before a malformed entry (SpecIVC).      *)

\* The entry initialize_variables was working on when it raised ValueError:
\* the first entry that is malformed and counts as true.
RaisedOn(entries) ==
    CHOOSE k \in 1..Len(entries) :
        /\ ~WellFormed(entries[k]) /\ PyBool(entries[k])
        /\ \A j \in 1..(k - 1) : WellFormed(entries[j]) \/ ~PyBool(entries[j])

\* C29: when initialize_variables raises on the k-th entry of the iterable
\* because that entry is malformed, the declared outputs are the first k-1
\* entries, one output per entry and in their order, and no input is
\* declared: no later entry and no earlier entry a second time.
C29_FirstEntriesDeclaredOnce ==
    (InitializedFromIterable /\ ret.exc = "ValueError") =>
        LET entries == indep.name.items
            k == RaisedOn(entries)
        IN  /\ myproc_names["input"] = <<>>
            /\ Len(myproc_names["output"]) = k - 1
            /\ \A j \in 1..(k - 1) :
                  /\ WellFormed(entries[j])
                  /\ myproc_names["output"][j] = entries[j].items[1]
                  /\ myproc_metadata["output"][j]["value"] = entries[j].items[2]

\* C29 for the iterables whose k-th entry is their first malformed one.
C29_FirstEntriesDeclaredOnce_FirstMalformed ==
    (/\ InitializedFromIterable
     /\ ret.exc = "ValueError"
     /\ RaisedOn(indep.name.items) = FirstMalformed(indep.name.items))
    => C29_FirstEntriesDeclaredOnce

----------------------------------------------------------------------------
(* Claims on the evaluation of an IndepVarComp, an explicit component that *)
(* keeps the default no-op compute (SpecNL).                               *)

\* C30: with the default no-op compute, no _solve_nonlinear and no
\* _apply_nonlinear call changes the outputs, so after any sequence of them
\* the outputs hold the values they held before it, and after each such call
\* every entry of the residual vector is zero.
C30_IndependentVariablesKept ==
    /\ [][computeKind = "noop" => outputs' = outputs]_vars
    /\ [](computeKind = "noop" /\ op \in {"_solve_nonlinear", "_apply_nonlinear"}
             => (ZeroVec(residuals) /\ outputs = pre.outputs))

\* An apply after a solve, with outputs that are not zero.
C30_Witness ==
    /\ computeKind = "noop"
    /\ op = "_apply_nonlinear"
    /\ prevOp = "_solve_nonlinear"
    /\ outputs["y"] = <<1, 0 - 1>>
    /\ outputs["z"] = <<1>>
    /\ ZeroVec(residuals)

====
